---- MODULE Spec2Model ----
(***************************************************************************)
(* Model of the stockpilot decision pipeline: the Monte Carlo demand       *)
(* simulator, the cost model, the risk estimator, the reorder optimizer,   *)
(* the single-SKU pipeline, the capital allocator, the batch services of   *)
(* the backend, the demand forecaster, the size curve generator and        *)
(* optimizer, the size share forecaster, the decision endpoints and the    *)
(* pipeline cache of the AI service.                                       *)
(*                                                                         *)
(* Numbers.  Quantities, prices and cash are integers.  Rates are kept in  *)
(* percent (holding_cost_rate 0.02 is 2), money produced by the cost model *)
(* is kept in hundredths so that the rates stay exact, and every           *)
(* np.mean(...) over the NSim trials is kept as the sum over the trials    *)
(* (the mean times NSim).  A probability is kept as the number of trials   *)
(* counted (the probability times NSim).  All comparisons are made on      *)
(* these exact scaled values.                                              *)
(***************************************************************************)
EXTENDS Integers, Sequences, FiniteSets, TLC

VARIABLES
    rngStream,            \* the sequence np.random yields after seed(random_seed)
    rngPos,               \* how many draws np.random has made since the seed
    cfg,                  \* arguments of the running call (cost model + run_pipeline)
    pc,                   \* position of the running run_pipeline call
    feasible_quantities,  \* last return value of find_feasible_order_quantities
    current_risk,         \* run_pipeline: current_risk
    optimization_result,  \* run_pipeline: optimization_result
    optSims,              \* simulations run inside the last optimize_reorder call
    comparison_result,    \* run_pipeline: comparison_result
    pipeline_result,      \* what run_pipeline returned / that it raised
    sku_data,             \* allocate_capital: sku_data (with each sku's cost model)
    baseline_quantities,  \* allocate_capital: baseline_quantities
    total_available_cash, \* allocate_capital: total_available_cash
    apc,                  \* position of the running allocate_capital call
    rankings,             \* rank_skus_by_efficiency: rankings / rankings_df
    rowIdx,               \* allocate_capital: index of the row the loop is at
    allocations,          \* allocate_capital: allocations
    total_cash_used,      \* allocate_capital: total_cash_used
    allocation_order,     \* allocate_capital: allocation_order
    products,             \* generate_recommendations_for_brand: products (with their data)
    batchIdx,             \* index of the product the batch loop is at
    recommendations,      \* generate_recommendations_for_brand: recommendations
    bpc,                  \* position of the running batch call
    batchArgs,            \* the batch call's handler and cash argument
    simInput,             \* arguments of the simulate_inventory_depletion calls
    simCalls,             \* what the calls made on one DemandSimulator returned
    curveInput,           \* arguments of the generate_valid_size_curves call
    valid_curves,         \* generate_valid_size_curves: valid_curves, each with its total
    models,               \* DemandForecaster.models: the quantiles that have a model
    train_completed,      \* a train() call of the forecaster has returned
    forecasters,          \* InventoryDecisionPipeline.forecasters: its keys
    historical_data,      \* InventoryDecisionPipeline.historical_data: its keys
    fcResult,             \* what the last forecaster or pipeline call returned
    riskInput,            \* the stockout probabilities before and after a reorder
    riskOut,              \* the categories attached to them
    costInput,            \* a cost model and the stockout_occurred flag of the calls
    costOut,              \* compute_understock_cost for each unmet_demand tried
    size_share_models,    \* SizeShareForecaster: per size, the trained model's predictions or None
    shareOut,             \* the outcome of SizeShareForecaster.forecast
    styleInput,           \* the arguments of an optimize_style_reorder call
    styleOut,             \* what the call returned
    decInput,             \* the decision's recommended_quantity, the stock before it and the layer called
    decision_status,      \* ReorderDecision.status as committed in the database
    inventory_quantity,   \* Inventory.current_quantity as committed, None without an inventory row
    decCalls,             \* the accept and reject calls made one after another, with their outcomes
    decReqs,              \* the accept and reject requests in flight, each with its position
    aiProduct,            \* the Product row as it is now
    aiHistory,            \* the product's sales history as it is now
    pipelines,            \* AIService.pipelines: the product's cached pipeline, or None
    aiRec,                \* what the last generate_recommendation call returned or raised
    aiEvents              \* uploads, updates and calls so far

rngVars   == <<rngStream, rngPos>>
pipeVars  == <<cfg, pc, feasible_quantities, current_risk, optimization_result,
               optSims, comparison_result, pipeline_result>>
allocVars == <<sku_data, baseline_quantities, total_available_cash, apc, rankings,
               rowIdx, allocations, total_cash_used, allocation_order>>
batchVars == <<products, batchIdx, recommendations, bpc, batchArgs>>
simVars   == <<simInput, simCalls>>
curveVars == <<curveInput, valid_curves>>
fcVars    == <<models, train_completed, forecasters, historical_data, fcResult>>
riskVars  == <<riskInput, riskOut>>
unitVars  == <<curveVars, fcVars, riskVars>>
costVars == <<costInput, costOut>>
shareVars == <<size_share_models, shareOut>>
styleVars == <<styleInput, styleOut>>
decVars == <<decInput, decision_status, inventory_quantity, decCalls, decReqs>>
aiVars == <<aiProduct, aiHistory, pipelines, aiRec, aiEvents>>
extVars == <<costVars, shareVars, styleVars, decVars, aiVars>>
notCost == <<shareVars, styleVars, decVars, aiVars>>
notShare == <<costVars, styleVars, decVars, aiVars>>
notStyle == <<costVars, shareVars, decVars, aiVars>>
notDec == <<costVars, shareVars, styleVars, aiVars>>
notAi == <<costVars, shareVars, styleVars, decVars>>
restVars  == <<batchVars, simVars, unitVars, extVars>>
vars      == <<rngVars, pipeVars, allocVars, restVars>>

----------------------------------------------------------------------------
(* Bounds of the model *)

NSim      == 2    \* n_simulations of the simulator under test
StreamLen == 3    \* period after which the modelled random stream repeats
MaxQ      == 4    \* largest min/max order quantity tried for the feasibility grid
NumSkus   == 2    \* number of SKUs handed to allocate_capital
NumProducts == 2  \* number of products handed to a batch call
HorizonDays == 2  \* days forecast by the services (forecast_horizon_days, scaled)
ServiceMaxQ == 12 \* max_order_quantity the services pass (scaled)
MaxSimCalls == 2  \* calls made on one simulator instance
MaxSizes  == 5    \* most sizes of a size distribution
ShareDen  == 5    \* size shares are multiples of 1/ShareDen
MaxOrderTotal == 3 \* largest min_order_total tried
ForecastDays == 1  \* future dates handed to DemandForecaster.forecast
RiskTrials == 20   \* trials behind the probabilities whose category is checked
MaxUnmet  == 3    \* largest unmet_demand handed to compute_understock_cost
ShareSizes == 2   \* sizes of the style given to SizeShareForecaster
ShareHorizon == 2 \* forecast_horizon_days of SizeShareForecaster.forecast
MaxCurveQty == 2  \* largest per-size quantity of a size curve template
MaxTemplates == 2 \* most size curve templates handed to optimize_style_reorder
MaxRecQty == 2    \* largest recommended_quantity of the decision
MaxDecisionCalls == 3 \* accept and reject calls made one after another
NumRequests == 2  \* accept and reject requests processed concurrently
MaxServiceEvents == 3 \* uploads, updates and calls on one AIService

(* Program constants *)

HoldingCostRatePct == 2        \* FootwearCostModel holding_cost_rate, 0.02
FootwearMarkdownPct == 50      \* FootwearCostModel markdown_rate, 0.5
OverstockMultiplierPct == 100  \* overstock_multipliers of sizes '8' and '9'
UnderstockMultiplierPct == 150 \* understock_multipliers of sizes '8' and '9'

MaxStockoutPct == 20          \* max_stockout_probability = 0.20
PenaltyFactor  == 10          \* penalty = total_expected_loss * 10.0
LowRiskPct     == 5           \* _categorize_risk: < 0.05 is LOW
MediumRiskPct  == 20          \* _categorize_risk: < 0.20 is MEDIUM
Inf            == 1000000000  \* np.inf
NaN            == 0           \* np.nan as a stockout day (days are 1-indexed)
DefaultStepSize == 10         \* step_size: float = 10.0
LagWindow      == 30          \* the longest lag feature, lag_30
MinTrainingSamples == 30      \* train: len(X) < 30 raises
MinSalesDays   == 30          \* get_sales_dataframe(product.id, min_days=30)

None    == <<>>               \* Python None; Some(x) is a present value
Some(x) == <<x>>

Max(a, b) == IF a >= b THEN a ELSE b
Min(a, b) == IF a <= b THEN a ELSE b
Abs(a)    == IF a < 0 THEN -a ELSE a

RECURSIVE SumSeq(_)
SumSeq(s) == IF s = <<>> THEN 0 ELSE Head(s) + SumSeq(Tail(s))

\* a function on 1 .. n as a list, each element computed once
AsList(f) == f \o <<>>

Zs == {-1, 1}    \* the deviates a draw may yield

Optional(S) == {None} \cup {Some(x) : x \in S}

\* a forecast of n days (mean 1, std 1 each day)
ForecastOfLen(n) == AsList([day \in 1 .. n |-> [mean |-> 1, std |-> 1]])

RECURSIVE SetToSortedSeq(_)
\* sorted(list(set(...))): ascending, duplicates removed
SetToSortedSeq(S) ==
    IF S = {} THEN <<>>
    ELSE LET m == CHOOSE x \in S : \A y \in S : x <= y
         IN  <<m>> \o SetToSortedSeq(S \ {m})

----------------------------------------------------------------------------
(* ReorderOptimizer.find_feasible_order_quantities *)

\* Python round(q / order_multiple): to the nearest integer, ties to the even one
PyRound(q, m) ==
    LET f == q \div m
        r == q % m
    IN  IF 2 * r < m THEN f
        ELSE IF 2 * r > m THEN f + 1
        ELSE IF f % 2 = 0 THEN f ELSE f + 1

\* the cash constraint never applied
LeqMaxOrderQuantity_NoCash(q, max_order_quantity, available_cash, unit_cost) ==
    q <= max_order_quantity

\* q <= max_order_quantity after `max_order_quantity = min(max_order_quantity,
\* available_cash / unit_cost)`; the quotient is compared exactly
LeqMaxOrderQuantity(q, max_order_quantity, available_cash, unit_cost) ==
    /\ q <= max_order_quantity
    /\ available_cash # None => q * unit_cost <= available_cash[1]

\* the values q takes in `while q <= max_order_quantity: ...; q += step_size`
GridPoints(min_order_quantity, max_order_quantity, available_cash, unit_cost, step_size) ==
    { q \in { min_order_quantity + k * step_size :
                  k \in 0 .. Max(0, max_order_quantity - min_order_quantity) } :
        LeqMaxOrderQuantity(q, max_order_quantity, available_cash, unit_cost) }

\* the candidate taken as it is, never rounded to the order multiple
RoundToMultiple_Unrounded(q, order_multiple) == q

RoundToMultiple(q, order_multiple) == PyRound(q, order_multiple) * order_multiple

FindFeasibleOrderQuantities(min_order_quantity, max_order_quantity, order_multiple, available_cash, unit_cost, step_size) ==
    SetToSortedSeq(
        { q_rounded \in
            { RoundToMultiple(q, order_multiple) :
                q \in GridPoints(min_order_quantity, max_order_quantity,
                                 available_cash, unit_cost, step_size) } :
            /\ q_rounded >= min_order_quantity
            /\ LeqMaxOrderQuantity(q_rounded, max_order_quantity,
                                   available_cash, unit_cost) })

----------------------------------------------------------------------------
(* DemandSimulator *)

\* the value np.random yields at draw number pos (a standard normal deviate)
Draw(pos) == rngStream[(pos % StreamLen) + 1]

\* simulate_demand_path, 'normal' sampling: max(0, np.random.normal(mean, std))
SimulateDemandPath(forecast_df, lead_time_days, pos) ==
    AsList([day \in 1 .. lead_time_days |->
        Max(0, forecast_df[day].mean + forecast_df[day].std * Draw(pos + day - 1))])

RECURSIVE DepletionWalk_Overwriting(_, _, _, _)
\* the walk re-flagging every negative day, so that the last one is kept
DepletionWalk_Overwriting(daily_demand, day, inventory, stockout_day) ==
    IF day > Len(daily_demand)
    THEN [inventory |-> inventory, stockout_day |-> stockout_day]
    ELSE LET inv == inventory - daily_demand[day]
         IN  DepletionWalk_Overwriting(daily_demand, day + 1, inv,
                                       IF inv < 0 THEN day ELSE stockout_day)

RECURSIVE DepletionWalk(_, _, _, _)
\* the day-by-day loop of simulate_inventory_depletion for one trial
DepletionWalk(daily_demand, day, inventory, stockout_day) ==
    IF day > Len(daily_demand)
    THEN [inventory |-> inventory, stockout_day |-> stockout_day]
    ELSE LET inv == inventory - daily_demand[day]
         IN  DepletionWalk(daily_demand, day + 1, inv,
                           IF inv < 0 /\ stockout_day = NaN THEN day ELSE stockout_day)

\* simulate_inventory_depletion, from the simulated demand paths on
DepletionResults(paths, current_inventory, pos) ==
    LET trials == AsList([sim \in 1 .. NSim |->
                      DepletionWalk(paths[sim], 1, current_inventory, NaN)])
    IN  [raised |-> FALSE,
         cumulative_demand |-> AsList([sim \in 1 .. NSim |-> SumSeq(paths[sim])]),
         stockout_days |-> AsList([sim \in 1 .. NSim |-> trials[sim].stockout_day]),
         ending_inventory |-> AsList([sim \in 1 .. NSim |-> trials[sim].inventory]),
         stockout_probability |->
             Cardinality({sim \in 1 .. NSim : trials[sim].stockout_day # NaN}),
         pos |-> pos]

\* the lead time silently cut to the length of the forecast
SimulateInventoryDepletion_Truncated(forecast_df, current_inventory, lead_time_days, pos) ==
    DepletionResults(
        AsList([sim \in 1 .. NSim |->
            SimulateDemandPath(forecast_df, Min(lead_time_days, Len(forecast_df)),
                pos + (sim - 1) * Min(lead_time_days, Len(forecast_df)))]),
        current_inventory, pos + NSim * Min(lead_time_days, Len(forecast_df)))

\* simulate_inventory_depletion; .raised is the ValueError of simulate_demand_path
SimulateInventoryDepletion(forecast_df, current_inventory, lead_time_days, pos) ==
    IF lead_time_days > Len(forecast_df)
    THEN [raised |-> TRUE, pos |-> pos]
    ELSE DepletionResults(
             AsList([sim \in 1 .. NSim |->
                 SimulateDemandPath(forecast_df, lead_time_days,
                                    pos + (sim - 1) * lead_time_days)]),
             current_inventory, pos + NSim * lead_time_days)

----------------------------------------------------------------------------
(* RiskEstimator *)

\* the thresholds taken as inclusive upper ends
CategorizeRiskOf_Inclusive(stockout_count, trials) ==
    IF stockout_count * 100 <= LowRiskPct * trials THEN "LOW"
    ELSE IF stockout_count * 100 <= MediumRiskPct * trials THEN "MEDIUM"
    ELSE "HIGH"

\* _categorize_risk on the probability stockout_count / trials
CategorizeRiskOf(stockout_count, trials) ==
    IF stockout_count * 100 < LowRiskPct * trials THEN "LOW"
    ELSE IF stockout_count * 100 < MediumRiskPct * trials THEN "MEDIUM"
    ELSE "HIGH"

\* _categorize_risk on a probability given as a count of the NSim trials
CategorizeRisk(stockout_count) == CategorizeRiskOf(stockout_count, NSim)

\* estimate_stockout_risk, from sim_results on (the demand percentiles and days
\* of cover it also reports are read nowhere in the pipeline and are left out)
StockoutRisk(sim_results, current_inventory, lead_time_days, pos) ==
    IF sim_results.raised THEN [raised |-> TRUE, pos |-> pos]
    ELSE [raised |-> FALSE,
          stockout_probability |-> sim_results.stockout_probability,
          risk_category |-> CategorizeRisk(sim_results.stockout_probability),
          current_inventory |-> current_inventory,
          lead_time_days |-> lead_time_days,
          pos |-> sim_results.pos]

\* estimate_stockout_risk
EstimateStockoutRisk(forecast_df, current_inventory, lead_time_days, pos) ==
    StockoutRisk(SimulateInventoryDepletion(forecast_df, current_inventory,
                                            lead_time_days, pos),
                 current_inventory, lead_time_days, pos)

\* estimate_risk_with_reorder, from sim_results on
RiskWithReorder(sim_results, reorder_quantity, pos) ==
    IF sim_results.raised THEN [raised |-> TRUE, pos |-> pos]
    ELSE LET after == AsList([sim \in 1 .. NSim |->
                          sim_results.ending_inventory[sim] + reorder_quantity])
             stockout_prob_after == Cardinality({sim \in 1 .. NSim : after[sim] < 0})
         IN  [raised |-> FALSE,
              stockout_probability |-> stockout_prob_after,
              risk_category |-> CategorizeRisk(stockout_prob_after),
              expected_ending_inventory |-> SumSeq(after),
              reorder_quantity |-> reorder_quantity,
              pos |-> sim_results.pos]

\* estimate_risk_with_reorder
EstimateRiskWithReorder(forecast_df, current_inventory, reorder_quantity, lead_time_days, pos) ==
    RiskWithReorder(SimulateInventoryDepletion(forecast_df, current_inventory,
                                               lead_time_days, pos),
                    reorder_quantity, pos)

----------------------------------------------------------------------------
(* CostModel; cm is the cost model's fields *)

MarginPerUnit(cm) == cm.selling_price - cm.unit_cost

\* compute_overstock_cost, in hundredths
ComputeOverstockCost(cm, excess_units, holding_period_months) ==
    IF excess_units <= 0 THEN 0
    ELSE LET cash_locked == excess_units * cm.unit_cost
         IN  cash_locked * 100
             + cash_locked * cm.holding_cost_rate * holding_period_months
             + excess_units * cm.markdown_rate * cm.unit_cost

\* compute_understock_cost, in hundredths
ComputeUnderstockCost(cm, unmet_demand, stockout_occurred) ==
    IF unmet_demand <= 0 THEN 0
    ELSE 100 * (unmet_demand * MarginPerUnit(cm)
                + (IF stockout_occurred THEN cm.churn_penalty ELSE 0))

\* compute_expected_economic_loss, from sim_results on
ExpectedEconomicLoss(cm, sim_results, reorder_quantity, holding_period_months, pos) ==
    IF sim_results.raised THEN [raised |-> TRUE, pos |-> pos]
    ELSE LET after == AsList([sim \in 1 .. NSim |->
                          sim_results.ending_inventory[sim] + reorder_quantity])
             overstock_costs == AsList([sim \in 1 .. NSim |->
                 IF after[sim] > 0
                 THEN ComputeOverstockCost(cm, after[sim], holding_period_months)
                 ELSE 0])
             understock_costs == AsList([sim \in 1 .. NSim |->
                 IF after[sim] > 0 THEN 0
                 ELSE ComputeUnderstockCost(cm, Abs(after[sim]), after[sim] < 0)])
             unmet_demands == AsList([sim \in 1 .. NSim |->
                 IF after[sim] > 0 THEN 0 ELSE Abs(after[sim])])
         IN  [raised |-> FALSE,
              expected_overstock_cost |-> SumSeq(overstock_costs),
              expected_understock_cost |-> SumSeq(understock_costs),
              total_expected_loss |->
                  SumSeq(overstock_costs) + SumSeq(understock_costs),
              expected_ending_inventory |-> SumSeq(after),
              expected_unmet_demand |-> SumSeq(unmet_demands),
              stockout_probability |->
                  Cardinality({sim \in 1 .. NSim : after[sim] < 0}),
              pos |-> sim_results.pos]

\* compute_expected_economic_loss
ComputeExpectedEconomicLoss(cm, forecast_df, current_inventory, reorder_quantity, lead_time_days, holding_period_months, pos) ==
    ExpectedEconomicLoss(cm,
        SimulateInventoryDepletion(forecast_df, current_inventory,
                                   lead_time_days, pos),
        reorder_quantity, holding_period_months, pos)

----------------------------------------------------------------------------
(* ReorderOptimizer.optimize_reorder; a is the call's arguments *)

\* stockout_prob > self.max_stockout_probability, on a count of the NSim trials
ExceedsCeiling(stockout_count) == stockout_count * 100 > MaxStockoutPct * NSim

\* the penalty dropped
Penalty_None(total_expected_loss, stockout_count) == 0

\* penalty: 0.0, or total_expected_loss * 10.0 above the risk tolerance
Penalty(total_expected_loss, stockout_count) ==
    IF ExceedsCeiling(stockout_count)
    THEN total_expected_loss * PenaltyFactor
    ELSE 0

\* total_loss = loss_result['total_expected_loss'] + penalty
PenalizedLoss(total_expected_loss, stockout_count) ==
    total_expected_loss + Penalty(total_expected_loss, stockout_count)

\* evaluations.append({...}) for one candidate
Evaluation(cm, qty, loss_result, risk_result) ==
    [quantity |-> qty,
     total_loss |-> PenalizedLoss(loss_result.total_expected_loss,
                                  risk_result.stockout_probability),
     overstock_cost |-> loss_result.expected_overstock_cost,
     understock_cost |-> loss_result.expected_understock_cost,
     stockout_probability |-> risk_result.stockout_probability,
     risk_category |-> risk_result.risk_category,
     expected_ending_inventory |-> loss_result.expected_ending_inventory,
     cash_locked |-> qty * cm.unit_cost]

\* the draws one simulation of NSim paths consumes
DrawsPerSimulation(lead_time_days) == NSim * lead_time_days

\* one pass of the loop `for qty in feasible_quantities`: two simulations, the
\* second drawing after the first
EvaluateCandidate(cm, a, qty, pos) ==
    Evaluation(cm, qty,
        ComputeExpectedEconomicLoss(cm, a.forecast_df, a.current_inventory, qty,
            a.lead_time_days, a.holding_period_months, pos),
        EstimateRiskWithReorder(a.forecast_df, a.current_inventory, qty,
            a.lead_time_days, pos + DrawsPerSimulation(a.lead_time_days)))

RECURSIVE EvaluateAll(_, _, _, _)
\* the evaluations list, each candidate drawing after the one before it
EvaluateAll(cm, a, quantities, pos) ==
    IF quantities = <<>> THEN <<>>
    ELSE <<EvaluateCandidate(cm, a, Head(quantities), pos)>>
         \o EvaluateAll(cm, a, Tail(quantities),
                        pos + 2 * DrawsPerSimulation(a.lead_time_days))

RECURSIVE InsertByLoss_BeforeEqual(_, _)
\* e placed in front of the elements of equal total_loss
InsertByLoss_BeforeEqual(sorted, e) ==
    IF sorted = <<>> THEN <<e>>
    ELSE IF Head(sorted).total_loss < e.total_loss
         THEN <<Head(sorted)>> \o InsertByLoss_BeforeEqual(Tail(sorted), e)
         ELSE <<e>> \o sorted

RECURSIVE InsertByLoss(_, _)
\* e placed behind every element whose total_loss is not larger
InsertByLoss(sorted, e) ==
    IF sorted = <<>> THEN <<e>>
    ELSE IF Head(sorted).total_loss <= e.total_loss
         THEN <<Head(sorted)>> \o InsertByLoss(Tail(sorted), e)
         ELSE <<e>> \o sorted

RECURSIVE SortedByLoss(_)
\* sorted(evaluations, key=lambda x: x['total_loss']): ascending and stable
SortedByLoss(evaluations) ==
    IF evaluations = <<>> THEN <<>>
    ELSE InsertByLoss(SortedByLoss(SubSeq(evaluations, 1, Len(evaluations) - 1)),
                      evaluations[Len(evaluations)])

\* the dict returned when len(feasible_quantities) == 0
SentinelResult ==
    [optimal_quantity |-> 0,
     optimal_loss |-> Inf,
     risk_metrics |-> None,
     all_evaluations |-> <<>>,
     message |-> "No feasible order quantities found"]

\* the risk tolerance as a hard constraint: no result when the best violates it
OptimalResult_HardCeiling(evaluations) ==
    IF ExceedsCeiling(evaluations[1].stockout_probability)
    THEN SentinelResult
    ELSE [optimal_quantity |-> evaluations[1].quantity,
          optimal_loss |-> evaluations[1].total_loss,
          risk_metrics |-> Some(
              [stockout_probability |-> evaluations[1].stockout_probability,
               risk_category |-> evaluations[1].risk_category,
               expected_ending_inventory |-> evaluations[1].expected_ending_inventory]),
          all_evaluations |-> evaluations,
          cash_locked |-> evaluations[1].cash_locked]

\* the dict returned for the first of the sorted evaluations
OptimalResult(evaluations) ==
    LET optimal == evaluations[1]
    IN  [optimal_quantity |-> optimal.quantity,
         optimal_loss |-> optimal.total_loss,
         risk_metrics |-> Some(
             [stockout_probability |-> optimal.stockout_probability,
              risk_category |-> optimal.risk_category,
              expected_ending_inventory |-> optimal.expected_ending_inventory]),
         all_evaluations |-> evaluations,
         cash_locked |-> optimal.cash_locked]

\* optimize_reorder, from feasible_quantities on: .feasible is the grid, .sims
\* the simulations it ran
OptimizeOver(cm, a, feasible, pos) ==
    IF Len(feasible) = 0
    THEN [raised |-> FALSE, result |-> SentinelResult, feasible |-> feasible,
          sims |-> 0, pos |-> pos]
    ELSE IF a.lead_time_days > Len(a.forecast_df)
    THEN [raised |-> TRUE, feasible |-> feasible, sims |-> 1, pos |-> pos]
    ELSE [raised |-> FALSE,
          result |-> OptimalResult(SortedByLoss(EvaluateAll(cm, a, feasible, pos))),
          feasible |-> feasible,
          sims |-> 2 * Len(feasible),
          pos |-> pos + 2 * Len(feasible) * DrawsPerSimulation(a.lead_time_days)]

\* optimize_reorder
OptimizeReorder(cm, a, available_cash, step_size, pos) ==
    OptimizeOver(cm, a,
        FindFeasibleOrderQuantities(a.min_order_quantity, a.max_order_quantity,
            a.order_multiple, available_cash, cm.unit_cost, step_size),
        pos)

\* compare_with_naive, from the two naive results on; .raised is the TypeError
\* of subscripting risk_metrics = None
Comparison(cm, naive_quantity, optimal_result, naive_loss_result, naive_risk, pos) ==
    IF naive_loss_result.raised THEN [raised |-> TRUE, pos |-> pos]
    ELSE IF optimal_result.risk_metrics = None
    THEN [raised |-> TRUE, pos |-> naive_risk.pos]
    ELSE [raised |-> FALSE,
          naive_quantity |-> naive_quantity,
          naive_loss |-> naive_loss_result.total_expected_loss,
          optimal_quantity |-> optimal_result.optimal_quantity,
          optimal_loss |-> optimal_result.optimal_loss,
          loss_reduction |-> naive_loss_result.total_expected_loss
                             - optimal_result.optimal_loss,
          cash_saved |-> (naive_quantity - optimal_result.optimal_quantity)
                         * cm.unit_cost,
          naive_stockout_prob |-> naive_risk.stockout_probability,
          optimal_stockout_prob |->
              optimal_result.risk_metrics[1].stockout_probability,
          pos |-> naive_risk.pos]

\* compare_with_naive
CompareWithNaive(cm, a, naive_quantity, optimal_result, pos) ==
    Comparison(cm, naive_quantity, optimal_result,
        ComputeExpectedEconomicLoss(cm, a.forecast_df, a.current_inventory,
            naive_quantity, a.lead_time_days, a.holding_period_months, pos),
        EstimateRiskWithReorder(a.forecast_df, a.current_inventory, naive_quantity,
            a.lead_time_days, pos + DrawsPerSimulation(a.lead_time_days)),
        pos)

\* DecisionExplainer.explain_reorder_decision: the reads it makes of the result
\* before it formats any text; "ok" stands for the explanation string
ExplainReorderDecision(optimal_result) ==
    IF "cash_locked" \notin DOMAIN optimal_result THEN "KeyError"
    ELSE IF optimal_result.risk_metrics = None THEN "TypeError"
    ELSE "ok"

----------------------------------------------------------------------------
(* InventoryDecisionPipeline.run_pipeline, from the forecast on *)

\* a call's return value without the model's bookkeeping fields
Returned(r) == [k \in DOMAIN r \ {"raised", "pos"} |-> r[k]]

Raise(error) == [status |-> "raised", error |-> error]

\* Step 2: self.risk_estimator.estimate_stockout_risk(...)
PipeEstimateRisk ==
    /\ pc = "risk"
    /\ LET r == EstimateStockoutRisk(cfg.forecast_df, cfg.current_inventory,
                                     cfg.lead_time_days, rngPos)
       IN  IF r.raised
           THEN /\ pc' = "raised"
                /\ pipeline_result' = Raise("ValueError")
                /\ UNCHANGED <<current_risk, rngPos>>
           ELSE /\ pc' = "optimize"
                /\ current_risk' = Some(Returned(r))
                /\ rngPos' = r.pos % StreamLen
                /\ UNCHANGED pipeline_result
    /\ UNCHANGED <<rngStream, cfg, feasible_quantities, optimization_result,
                   optSims, comparison_result, allocVars, restVars>>

\* Step 3: self.optimizer.optimize_reorder(...), step_size left at its default
PipeOptimize ==
    /\ pc = "optimize"
    /\ LET o == OptimizeReorder(cfg, cfg, cfg.available_cash, DefaultStepSize, rngPos)
       IN  /\ feasible_quantities' = o.feasible
           /\ optSims' = o.sims
           /\ IF o.raised
              THEN /\ pc' = "raised"
                   /\ pipeline_result' = Raise("ValueError")
                   /\ UNCHANGED <<optimization_result, rngPos>>
              ELSE /\ pc' = "compare"
                   /\ optimization_result' = Some(o.result)
                   /\ rngPos' = o.pos % StreamLen
                   /\ UNCHANGED pipeline_result
    /\ UNCHANGED <<rngStream, cfg, current_risk, comparison_result, allocVars, restVars>>

\* Step 4: compare_with_naive, only `if naive_quantity is not None`
PipeCompare ==
    /\ pc = "compare"
    /\ IF cfg.naive_quantity = None
       THEN /\ pc' = "explain"
            /\ UNCHANGED <<comparison_result, pipeline_result, rngPos>>
       ELSE LET c == CompareWithNaive(cfg, cfg, cfg.naive_quantity[1],
                                      optimization_result[1], rngPos)
            IN  IF c.raised
                THEN /\ pc' = "raised"
                     /\ pipeline_result' = Raise("TypeError")
                     /\ rngPos' = c.pos % StreamLen
                     /\ UNCHANGED comparison_result
                ELSE /\ pc' = "explain"
                     /\ comparison_result' = Some(Returned(c))
                     /\ rngPos' = c.pos % StreamLen
                     /\ UNCHANGED pipeline_result
    /\ UNCHANGED <<rngStream, cfg, feasible_quantities, current_risk,
                   optimization_result, optSims, allocVars, restVars>>

\* Step 5: self.explainer.explain_reorder_decision(...)
PipeExplain ==
    /\ pc = "explain"
    /\ LET e == ExplainReorderDecision(optimization_result[1])
       IN  IF e = "ok"
           THEN /\ pc' = "breakdown"
                /\ UNCHANGED pipeline_result
           ELSE /\ pc' = "raised"
                /\ pipeline_result' = Raise(e)
    /\ UNCHANGED <<rngVars, cfg, feasible_quantities, current_risk,
                   optimization_result, optSims, comparison_result, allocVars, restVars>>

\* cost_breakdown = compute_expected_economic_loss(...), and the return
PipeReturn ==
    /\ pc = "breakdown"
    /\ LET b == ComputeExpectedEconomicLoss(cfg, cfg.forecast_df,
                    cfg.current_inventory, optimization_result[1].optimal_quantity,
                    cfg.lead_time_days, cfg.holding_period_months, rngPos)
       IN  IF b.raised
           THEN /\ pc' = "raised"
                /\ pipeline_result' = Raise("ValueError")
                /\ UNCHANGED rngPos
           ELSE /\ pc' = "returned"
                /\ pipeline_result' =
                       [status |-> "returned",
                        current_risk |-> current_risk[1],
                        optimization_result |-> optimization_result[1],
                        comparison_result |-> comparison_result,
                        cost_breakdown |-> Returned(b)]
                /\ rngPos' = b.pos % StreamLen
    /\ UNCHANGED <<rngStream, cfg, feasible_quantities, current_risk,
                   optimization_result, optSims, comparison_result, allocVars, restVars>>

----------------------------------------------------------------------------
(* run_pipeline as the services call it: one call, from the forecast to the  *)
(* returned dict; c is the call's arguments with the cost model's fields     *)

\* an exception leaving a call that had consumed the draws up to pos
Raised(error, pos) == [raised |-> TRUE, error |-> error, pos |-> pos]

\* run_pipeline: the cost breakdown and the returned dict
RunPipelineReturn(r, o, comparison, b, pos) ==
    IF b.raised THEN Raised("ValueError", pos)
    ELSE [raised |-> FALSE,
          pos |-> b.pos,
          current_risk |-> Returned(r),
          optimization_result |-> o.result,
          comparison_result |-> comparison,
          cost_breakdown |-> Returned(b)]

\* run_pipeline, Step 5 on: the explanation, then the cost breakdown
RunPipelineExplain(c, r, o, comparison, pos) ==
    IF ExplainReorderDecision(o.result) # "ok"
    THEN Raised(ExplainReorderDecision(o.result), pos)
    ELSE RunPipelineReturn(r, o, comparison,
             ComputeExpectedEconomicLoss(c, c.forecast_df, c.current_inventory,
                 o.result.optimal_quantity, c.lead_time_days,
                 c.holding_period_months, pos),
             pos)

\* run_pipeline, Step 4 with a naive quantity: after compare_with_naive
RunPipelineCompared(c, r, o, cmp) ==
    IF cmp.raised THEN Raised("TypeError", cmp.pos)
    ELSE RunPipelineExplain(c, r, o, Some(Returned(cmp)), cmp.pos)

\* run_pipeline, Step 4 on
RunPipelineCompare(c, r, o) ==
    IF o.raised THEN Raised("ValueError", o.pos)
    ELSE IF c.naive_quantity = None
    THEN RunPipelineExplain(c, r, o, None, o.pos)
    ELSE RunPipelineCompared(c, r, o,
             CompareWithNaive(c, c, c.naive_quantity[1], o.result, o.pos))

\* run_pipeline, Step 3 on
RunPipelineOptimize(c, r, pos) ==
    IF r.raised THEN Raised("ValueError", pos)
    ELSE RunPipelineCompare(c, r,
             OptimizeReorder(c, c, c.available_cash, DefaultStepSize, r.pos))

\* run_pipeline for a trained sku, Step 2 on
RunPipeline(c, pos) ==
    RunPipelineOptimize(c,
        EstimateStockoutRisk(c.forecast_df, c.current_inventory, c.lead_time_days, pos),
        pos)

----------------------------------------------------------------------------
(* CapitalAllocator; an element of sku_data carries the fields of its sku's    *)
(* optimizer.cost_model, and its index in sku_data is its sku_id               *)

\* a / b >= c / d for the fractions [num, den] with den > 0
RatioGeq(x, y) == x.num * y.den >= y.num * x.den

\* loss_avoided / incremental_cash if incremental_cash > 0, else 0.0
LossAvoidedPerRupee(loss_avoided, incremental_cash) ==
    IF incremental_cash > 0
    THEN [num |-> loss_avoided, den |-> incremental_cash]
    ELSE [num |-> 0, den |-> 1]

\* compute_loss_avoided_per_rupee, from the optimal and the baseline result on;
\* .raised names the exception it ends with
EfficiencyMetrics(sku_id, sku_info, baseline_quantity, o, b, pos) ==
    IF o.raised \/ b.raised THEN [raised |-> "ValueError", pos |-> pos]
    ELSE IF o.result.risk_metrics = None
    THEN [raised |-> "TypeError", pos |-> b.pos]
    ELSE LET baseline_loss    == b.total_expected_loss
             optimal_loss     == o.result.optimal_loss
             loss_avoided     == baseline_loss - optimal_loss
             optimal_cash     == o.result.optimal_quantity * sku_info.unit_cost
             baseline_cash    == baseline_quantity * sku_info.unit_cost
             incremental_cash == optimal_cash - baseline_cash
         IN  [raised |-> "",
              pos |-> b.pos,
              sku_id |-> sku_id,
              baseline_quantity |-> baseline_quantity,
              optimal_quantity |-> o.result.optimal_quantity,
              baseline_loss |-> baseline_loss,
              optimal_loss |-> optimal_loss,
              loss_avoided |-> loss_avoided,
              baseline_cash |-> baseline_cash,
              optimal_cash |-> optimal_cash,
              incremental_cash |-> incremental_cash,
              loss_avoided_per_rupee |->
                  LossAvoidedPerRupee(loss_avoided, incremental_cash),
              stockout_prob |-> o.result.risk_metrics[1].stockout_probability]

\* compute_loss_avoided_per_rupee, from optimal_result on: the baseline loss
\* is simulated after the optimizer's draws
BaselineAgainst(sku_id, sku_info, baseline_quantity, o, pos) ==
    EfficiencyMetrics(sku_id, sku_info, baseline_quantity, o,
        ComputeExpectedEconomicLoss(sku_info, sku_info.forecast_df,
            sku_info.current_inventory, baseline_quantity,
            sku_info.lead_time_days, sku_info.holding_period_months, o.pos),
        pos)

\* compute_loss_avoided_per_rupee
ComputeLossAvoidedPerRupee(sku_id, sku_info, baseline_quantity, pos) ==
    BaselineAgainst(sku_id, sku_info, baseline_quantity,
        OptimizeReorder(sku_info, sku_info, None, DefaultStepSize, pos), pos)

\* rows in ascending order of loss_avoided_per_rupee
RankedAscending(rows) ==
    \A i \in 1 .. Len(rows) - 1 :
        RatioGeq(rows[i + 1].loss_avoided_per_rupee, rows[i].loss_avoided_per_rupee)

\* rows in the order sort_values('loss_avoided_per_rupee', ascending=False) asks for
RankedDescending(rows) ==
    \A i \in 1 .. Len(rows) - 1 :
        RatioGeq(rows[i].loss_avoided_per_rupee, rows[i + 1].loss_avoided_per_rupee)

\* the orders the sort may leave the rows in (it fixes no order among equal keys)
SortValues(rows) ==
    { AsList([i \in 1 .. Len(rows) |-> rows[perm[i]]]) :
        perm \in { f \in [1 .. Len(rows) -> 1 .. Len(rows)] :
                     /\ \A i, j \in 1 .. Len(rows) : i # j => f[i] # f[j]
                     /\ RankedDescending([i \in 1 .. Len(rows) |-> rows[f[i]]]) } }

\* rank_skus_by_efficiency, one pass of `for sku_info in sku_data`
AllocRank ==
    /\ apc = "rank"
    /\ Len(rankings) < Len(sku_data)
    /\ LET sku_id  == Len(rankings) + 1
           metrics == ComputeLossAvoidedPerRupee(sku_id, sku_data[sku_id],
                          baseline_quantities[sku_id], rngPos)
       IN  IF metrics.raised # ""
           THEN /\ apc' = "raised"
                /\ rngPos' = metrics.pos % StreamLen
                /\ UNCHANGED rankings
           ELSE /\ rankings' = Append(rankings, Returned(metrics))
                /\ rngPos' = metrics.pos % StreamLen
                /\ UNCHANGED apc
    /\ UNCHANGED <<rngStream, pipeVars, restVars, sku_data, baseline_quantities,
                   total_available_cash, rowIdx, allocations, total_cash_used,
                   allocation_order>>

\* rank_skus_by_efficiency: the DataFrame sorted by efficiency, returned
AllocSort ==
    /\ apc = "rank"
    /\ Len(rankings) = Len(sku_data)
    /\ rankings' \in SortValues(rankings)
    /\ apc' = "allocate"
    /\ rowIdx' = 1
    /\ UNCHANGED <<rngVars, pipeVars, restVars, sku_data, baseline_quantities,
                   total_available_cash, allocations, total_cash_used,
                   allocation_order>>

\* the cash compared with the budget alone, the spend so far left out
Affordable_IgnoringSpend(spent, cash, budget) == cash <= budget

\* total_cash_used + cash <= total_available_cash
Affordable(spent, cash, budget) == spent + cash <= budget

\* allocate_capital, one pass of `for _, row in rankings_df.iterrows()`
AllocStep ==
    /\ apc = "allocate"
    /\ rowIdx <= Len(rankings)
    /\ LET row == rankings[rowIdx]
       IN  IF Affordable(total_cash_used, row.incremental_cash, total_available_cash)
           THEN /\ allocations' = allocations @@
                       (row.sku_id :> [quantity |-> row.optimal_quantity,
                                       cash |-> row.optimal_cash,
                                       loss_avoided |-> row.loss_avoided])
                /\ total_cash_used' = total_cash_used + row.incremental_cash
                /\ allocation_order' = Append(allocation_order, row.sku_id)
           ELSE IF Affordable(total_cash_used, row.baseline_cash, total_available_cash)
           THEN /\ allocations' = allocations @@
                       (row.sku_id :> [quantity |-> row.baseline_quantity,
                                       cash |-> row.baseline_cash,
                                       loss_avoided |-> 0])
                /\ total_cash_used' = total_cash_used + row.baseline_cash
                /\ allocation_order' = Append(allocation_order, row.sku_id)
           ELSE /\ allocations' = allocations @@
                       (row.sku_id :> [quantity |-> 0, cash |-> 0, loss_avoided |-> 0])
                /\ UNCHANGED <<total_cash_used, allocation_order>>
    /\ rowIdx' = rowIdx + 1
    /\ UNCHANGED <<rngVars, pipeVars, restVars, sku_data, baseline_quantities,
                   total_available_cash, apc, rankings>>

\* allocate_capital: the loop is over, the result dict is returned
AllocReturn ==
    /\ apc = "allocate"
    /\ rowIdx > Len(rankings)
    /\ apc' = "returned"
    /\ UNCHANGED <<rngVars, pipeVars, restVars, sku_data, baseline_quantities,
                   total_available_cash, rankings, rowIdx, allocations,
                   total_cash_used, allocation_order>>

----------------------------------------------------------------------------
(* The services' batch calls: AIService.generate_recommendations_for_brand    *)
(* and InventoryService.generate_decisions_for_brand.  A product carries its  *)
(* cost fields, its order constraints, whether it has an inventory record     *)
(* (and its quantity), and the number of days of its sales history.           *)

\* the rows _prepare_training_data keeps: dropna removes the first LagWindow
\* rows, whose lag_30 is NaN
TrainingSamples(history_days) == Max(0, history_days - LagWindow)

\* DemandForecaster.train does not raise
TrainSucceeds(history_days) == TrainingSamples(history_days) >= MinTrainingSamples

\* a product that both services can decide on
GoodProduct(current_quantity, min_order_quantity) ==
    [id |-> 0,
     unit_cost |-> 1,
     selling_price |-> 3,
     holding_cost_rate |-> 2,
     markdown_rate |-> 0,
     churn_penalty |-> 1,
     has_inventory |-> TRUE,
     current_quantity |-> current_quantity,
     history_days |-> LagWindow + MinTrainingSamples,
     lead_time_days |-> 1,
     min_order_quantity |-> min_order_quantity,
     order_multiple |-> 1]

\* the arguments run_pipeline gets for a product from either service
PipelineArgs(product, available_cash, naive_quantity) ==
    [unit_cost |-> product.unit_cost,
     selling_price |-> product.selling_price,
     holding_cost_rate |-> product.holding_cost_rate,
     markdown_rate |-> product.markdown_rate,
     churn_penalty |-> product.churn_penalty,
     forecast_df |-> ForecastOfLen(HorizonDays),
     current_inventory |-> product.current_quantity,
     lead_time_days |-> product.lead_time_days,
     min_order_quantity |-> product.min_order_quantity,
     max_order_quantity |-> ServiceMaxQ,
     order_multiple |-> product.order_multiple,
     available_cash |-> available_cash,
     holding_period_months |-> 1,
     naive_quantity |-> naive_quantity]

\* map_risk_category inside generate_recommendation, on a probability num/den
MapRiskCategory(num, den) ==
    IF num * 100 < LowRiskPct * den THEN "LOW"
    ELSE IF num * 100 < MediumRiskPct * den THEN "MEDIUM"
    ELSE "HIGH"

\* generate_recommendation: the recommendation dict built from the result
Recommendation(product, result) ==
    IF result.raised THEN result
    ELSE IF result.optimization_result.risk_metrics = None
    THEN Raised("TypeError", result.pos)
    ELSE [raised |-> FALSE,
          pos |-> result.pos,
          product_id |-> product.id,
          recommended_quantity |-> result.optimization_result.optimal_quantity,
          current_inventory |-> product.current_quantity,
          stockout_probability_before |-> result.current_risk.stockout_probability,
          stockout_probability_after |->
              result.optimization_result.risk_metrics[1].stockout_probability,
          risk_category_before |->
              MapRiskCategory(result.current_risk.stockout_probability, NSim),
          risk_category_after |->
              MapRiskCategory(
                  result.optimization_result.risk_metrics[1].stockout_probability,
                  NSim),
          expected_overstock_cost |-> result.cost_breakdown.expected_overstock_cost,
          expected_understock_cost |-> result.cost_breakdown.expected_understock_cost,
          total_expected_loss |-> result.cost_breakdown.total_expected_loss,
          cash_locked |-> result.optimization_result.cash_locked]

\* AIService.generate_recommendation: a pipeline is created for the product
\* (its DemandSimulator reseeds the global stream), the history is prepared, the
\* forecaster trained, the pipeline run
GenerateRecommendation(product, available_cash) ==
    IF product.history_days = 0 THEN Raised("ValueError", 0)
    ELSE IF ~ TrainSucceeds(product.history_days) THEN Raised("ValueError", 0)
    ELSE Recommendation(product, RunPipeline(PipelineArgs(product, available_cash, None), 0))

\* generate_reorder_decision: the ReorderDecision built from the result
Decision(product, baseline_quantity, result) ==
    IF result.raised THEN result
    ELSE IF result.optimization_result.risk_metrics = None
    THEN Raised("TypeError", result.pos)
    ELSE [raised |-> FALSE,
          pos |-> result.pos,
          product_id |-> product.id,
          recommended_quantity |-> result.optimization_result.optimal_quantity,
          current_inventory |-> product.current_quantity,
          stockout_probability_before |-> result.current_risk.stockout_probability,
          stockout_probability_after |->
              result.optimization_result.risk_metrics[1].stockout_probability,
          risk_category_before |-> result.current_risk.risk_category,
          risk_category_after |->
              result.optimization_result.risk_metrics[1].risk_category,
          expected_overstock_cost |-> result.cost_breakdown.expected_overstock_cost,
          expected_understock_cost |-> result.cost_breakdown.expected_understock_cost,
          total_expected_loss |-> result.cost_breakdown.total_expected_loss,
          cash_locked |-> result.optimization_result.cash_locked,
          baseline_quantity |-> baseline_quantity]

\* InventoryService.generate_reorder_decision: the inventory record and the
\* sales history are fetched first, then a pipeline is created (reseeding the
\* global stream), trained and run
GenerateReorderDecision(product, available_cash, baseline_quantity, pos) ==
    IF ~ product.has_inventory THEN Raised("ValueError", pos)
    ELSE IF product.history_days < MinSalesDays THEN Raised("ValueError", pos)
    ELSE IF ~ TrainSucceeds(product.history_days) THEN Raised("ValueError", 0)
    ELSE Decision(product, baseline_quantity,
             RunPipeline(PipelineArgs(product, available_cash, baseline_quantity), 0))

\* x['total_expected_loss'] / max(x['cash_locked'], 1) of a is >= that of b
RecKeyGeq(a, b) ==
    a.total_expected_loss * Max(b.cash_locked, 1)
        >= b.total_expected_loss * Max(a.cash_locked, 1)

RECURSIVE InsertByRecKey(_, _)
\* e placed behind every element whose key is not smaller
InsertByRecKey(sorted, e) ==
    IF sorted = <<>> THEN <<e>>
    ELSE IF RecKeyGeq(Head(sorted), e)
         THEN <<Head(sorted)>> \o InsertByRecKey(Tail(sorted), e)
         ELSE <<e>> \o sorted

RECURSIVE SortedByRecKey(_)
\* sorted(recommendations, key=..., reverse=True): descending and stable
SortedByRecKey(recs) ==
    IF recs = <<>> THEN <<>>
    ELSE InsertByRecKey(SortedByRecKey(SubSeq(recs, 1, Len(recs) - 1)),
                        recs[Len(recs)])

RECURSIVE FitToCash(_, _, _)
\* the loop `for rec in recommendations` that fits the quantities to the cash
FitToCash(recs, allocated_cash, total_cash) ==
    IF recs = <<>> THEN <<>>
    ELSE IF allocated_cash + Head(recs).cash_locked <= total_cash
    THEN <<Head(recs)>>
         \o FitToCash(Tail(recs), allocated_cash + Head(recs).cash_locked,
                      total_cash)
    ELSE IF total_cash - allocated_cash > 0
    THEN <<[Head(recs) EXCEPT
               !.recommended_quantity =
                   Min(Head(recs).recommended_quantity,
                       total_cash - allocated_cash),
               !.cash_locked = total_cash - allocated_cash]>>
         \o FitToCash(Tail(recs), allocated_cash, total_cash)
    ELSE <<[Head(recs) EXCEPT !.recommended_quantity = 0, !.cash_locked = 0]>>
         \o FitToCash(Tail(recs), allocated_cash, total_cash)

\* the failing product's exception ends the collection: nothing is kept
Collected_NothingOnFailure(collected, outcome) ==
    IF outcome.raised THEN <<>> ELSE Append(collected, Returned(outcome))

\* try: ...append(...) except Exception: continue
Collected(collected, outcome) ==
    IF outcome.raised THEN collected ELSE Append(collected, Returned(outcome))

\* generate_recommendations_for_brand, one pass of `for product in products`
RecStep ==
    /\ bpc = "loop"
    /\ batchArgs.handler = "recommendations"
    /\ batchIdx <= Len(products)
    /\ LET product == products[batchIdx]
       IN  IF ~ product.has_inventory \/ product.history_days = 0
           THEN UNCHANGED <<recommendations, rngPos>>
           ELSE LET rec == GenerateRecommendation(product, None)
                IN  /\ rngPos' = rec.pos % StreamLen
                    /\ recommendations' = Collected(recommendations, rec)
    /\ batchIdx' = batchIdx + 1
    /\ UNCHANGED <<rngStream, pipeVars, allocVars, products, bpc, batchArgs, simVars, unitVars, extVars>>

\* generate_recommendations_for_brand: the cash allocation, and the return
RecReturn ==
    /\ bpc = "loop"
    /\ batchArgs.handler = "recommendations"
    /\ batchIdx > Len(products)
    /\ recommendations' =
           IF batchArgs.cash # None /\ recommendations # <<>>
           THEN FitToCash(SortedByRecKey(recommendations), 0, batchArgs.cash[1])
           ELSE recommendations
    /\ bpc' = "returned"
    /\ UNCHANGED <<rngVars, pipeVars, allocVars, products, batchIdx, batchArgs, simVars, unitVars, extVars>>

\* generate_decisions_for_brand, one pass of `for product in products`
DecStep ==
    /\ bpc = "loop"
    /\ batchArgs.handler = "decisions"
    /\ batchIdx <= Len(products)
    /\ LET product  == products[batchIdx]
           decision == GenerateReorderDecision(product, batchArgs.cash,
                           batchArgs.baseline_quantities[batchIdx], rngPos)
       IN  /\ rngPos' = decision.pos % StreamLen
           /\ recommendations' = Collected(recommendations, decision)
    /\ batchIdx' = batchIdx + 1
    /\ UNCHANGED <<rngStream, pipeVars, allocVars, products, bpc, batchArgs, simVars, unitVars, extVars>>

\* generate_decisions_for_brand: return decisions
DecReturn ==
    /\ bpc = "loop"
    /\ batchArgs.handler = "decisions"
    /\ batchIdx > Len(products)
    /\ bpc' = "returned"
    /\ UNCHANGED <<rngVars, pipeVars, allocVars, products, batchIdx,
                   recommendations, batchArgs, simVars, unitVars, extVars>>

----------------------------------------------------------------------------
(* Calls on one DemandSimulator instance: simInput holds the arguments the     *)
(* calls are made with, simCalls what each call returned, in call order        *)

\* what a call hands back: the modelled result without the stream position
Outcome(r) == [k \in DOMAIN r \ {"pos"} |-> r[k]]

\* a call has returned or raised: the stream stays where the call left it
SimCalled(op, r) ==
    /\ simCalls' = Append(simCalls, [op |-> op, result |-> Outcome(r)])
    /\ rngPos' = r.pos % StreamLen
    /\ UNCHANGED <<rngStream, pipeVars, allocVars, batchVars, simInput, unitVars, extVars>>

\* simulator.simulate_inventory_depletion(forecast, current_inventory, lead_time_days)
SimSimulate ==
    /\ simInput # None
    /\ Len(simCalls) < MaxSimCalls
    /\ SimCalled("simulate_inventory_depletion",
           SimulateInventoryDepletion(simInput[1].forecast_df,
               simInput[1].current_inventory, simInput[1].lead_time_days, rngPos))

\* risk_estimator.estimate_stockout_risk(...) on the same simulator
SimEstimateRisk ==
    /\ simInput # None
    /\ Len(simCalls) < MaxSimCalls
    /\ SimCalled("estimate_stockout_risk",
           EstimateStockoutRisk(simInput[1].forecast_df,
               simInput[1].current_inventory, simInput[1].lead_time_days, rngPos))

\* cost_model.compute_expected_economic_loss(...) on the same simulator
SimExpectedLoss ==
    /\ simInput # None
    /\ Len(simCalls) < MaxSimCalls
    /\ SimCalled("compute_expected_economic_loss",
           ComputeExpectedEconomicLoss(simInput[1], simInput[1].forecast_df,
               simInput[1].current_inventory, simInput[1].reorder_quantity,
               simInput[1].lead_time_days, simInput[1].holding_period_months,
               rngPos))

\* optimizer.optimize_reorder(...) on the same simulator
SimOptimize ==
    /\ simInput # None
    /\ Len(simCalls) < MaxSimCalls
    /\ SimCalled("optimize_reorder",
           OptimizeReorder(simInput[1], simInput[1], None, 1, rngPos))

----------------------------------------------------------------------------
(* SizeCurveOptimizer.generate_valid_size_curves.  size_distribution is the    *)
(* sequence of the shares in key order, each share a number of ShareDen-ths    *)

\* int(round(total_units * size_distribution[size])), floored to the order
\* multiple when there is one, and max(0, .)
SizeQty(total_units, share, order_multiple) ==
    Max(0, IF order_multiple > 1
           THEN (PyRound(total_units * share, ShareDen) \div order_multiple)
                    * order_multiple
           ELSE PyRound(total_units * share, ShareDen))

\* max(sizes, key=lambda s: size_distribution[s]): the first of the largest
LargestSize(size_distribution) ==
    CHOOSE i \in 1 .. Len(size_distribution) :
        /\ \A j \in 1 .. Len(size_distribution) :
               size_distribution[j] <= size_distribution[i]
        /\ \A j \in 1 .. i - 1 : size_distribution[j] < size_distribution[i]

\* the adjustment of the rounding remainder onto the largest size
ReconciledCurve(curve, total_units, largest_size) ==
    IF total_units - SumSeq(curve) # 0
    THEN [curve EXCEPT ![largest_size] = Max(0, @ + total_units - SumSeq(curve))]
    ELSE curve

\* the curve built by one pass of `for total_units in total_range`
SizeCurve(size_distribution, total_units, order_multiple) ==
    ReconciledCurve(
        AsList([i \in 1 .. Len(size_distribution) |->
                    SizeQty(total_units, size_distribution[i], order_multiple)]),
        total_units, LargestSize(size_distribution))

\* max_order_total or min_order_total * 10
LastTotal(min_order_total, max_order_total) ==
    IF max_order_total = None \/ max_order_total = Some(0)
    THEN min_order_total * 10
    ELSE max_order_total[1]

\* range(min_order_total, last + 1, order_multiple)
TotalRange(min_order_total, order_multiple, last) ==
    IF last < min_order_total THEN <<>>
    ELSE AsList([k \in 1 .. ((last - min_order_total) \div order_multiple) + 1 |->
                     min_order_total + (k - 1) * order_multiple])

\* the curves appended for the totals of the range, each kept with its total
CurvesFor(size_distribution, order_multiple, total_range) ==
    AsList([k \in 1 .. Len(total_range) |->
        [total_units |-> total_range[k],
         curve |-> SizeCurve(size_distribution, total_range[k], order_multiple)]])

\* generate_valid_size_curves
GenerateValidSizeCurves ==
    /\ curveInput # None
    /\ valid_curves = <<>>
    /\ valid_curves' =
           CurvesFor(curveInput[1].size_distribution, curveInput[1].order_multiple,
               TotalRange(curveInput[1].min_order_total, curveInput[1].order_multiple,
                   LastTotal(curveInput[1].min_order_total,
                             curveInput[1].max_order_total)))
    /\ UNCHANGED <<rngVars, pipeVars, allocVars, batchVars, simVars, curveInput,
                   fcVars, riskVars, extVars>>

----------------------------------------------------------------------------
(* DemandForecaster (one instance, its models in `models`) and the pipeline's  *)
(* forecasters dict.  A quantile model's prediction is any number: it is drawn *)
(* from Preds for each date and quantile.                                      *)

\* self.quantiles, in percent
Quantiles == {10, 50, 90}

\* what a fitted quantile model may predict for a date
Preds == {-1, 0, 2}

\* forecast refuses to run: `if not self.models`
ModelsMissing_Never(trained) == FALSE

ModelsMissing(trained) == trained = {}

\* std_demand = (p90 - p10) / 2.56 if (p90 - p10) > 0 else p50 * 0.2, as a ratio
StdDemand(p10, p50, p90) ==
    IF p90 - p10 > 0 THEN [num |-> (p90 - p10) * 100, den |-> 256]
    ELSE [num |-> p50 * 2, den |-> 10]

\* quantile_predictions.get(key, default): the prediction of the quantile's
\* model clipped at 0 on its own, or the default when there is no such model
QuantilePrediction(pred, quantile, default) ==
    IF quantile \in DOMAIN pred THEN Max(0, pred[quantile]) ELSE default

\* the row built from p10, p50 and p90
RowOfQuantiles(p10, p50, p90) ==
    [p10 |-> p10, p50 |-> p50, p90 |-> p90, mean |-> p50,
     std |-> StdDemand(p10, p50, p90)]

\* the row appended for one date from the models' predictions; the defaults
\* p50 * 0.7 and p50 * 1.3 are exact for the p50 = 0 of a missing p50 model
ForecastRow(pred) ==
    RowOfQuantiles(
        QuantilePrediction(pred, 10,
            (QuantilePrediction(pred, 50, 0) * 7) \div 10),
        QuantilePrediction(pred, 50, 0),
        QuantilePrediction(pred, 90,
            (QuantilePrediction(pred, 50, 0) * 13) \div 10))

\* DemandForecaster.train(historical_data) on a history of history_days rows:
\* the length check comes before self.models is reset
Train ==
    /\ fcResult # None
    /\ \E history_days \in {0, MinSalesDays - 1, MinSalesDays,
                             LagWindow + MinTrainingSamples - 1,
                             LagWindow + MinTrainingSamples} :
           IF TrainSucceeds(history_days)
           THEN /\ models' = Quantiles
                /\ train_completed' = TRUE
                /\ fcResult' = Some([op |-> "train", raised |-> FALSE,
                                     history_days |-> history_days])
           ELSE /\ fcResult' = Some([op |-> "train", raised |-> TRUE,
                                     error |-> "ValueError",
                                     history_days |-> history_days])
                /\ UNCHANGED <<models, train_completed>>
    /\ UNCHANGED <<rngVars, pipeVars, allocVars, batchVars, simVars, curveVars,
                   forecasters, historical_data, riskVars, extVars>>

\* DemandForecaster.forecast(future_dates, last_known_data)
Forecast ==
    /\ fcResult # None
    /\ IF ModelsMissing(models)
       THEN fcResult' = Some([op |-> "forecast", raised |-> TRUE,
                              error |-> "ValueError"])
       ELSE \E preds \in [1 .. ForecastDays -> [models -> Preds]] :
                fcResult' = Some([op |-> "forecast", raised |-> FALSE,
                                  rows |-> AsList([d \in 1 .. ForecastDays |->
                                                      ForecastRow(preds[d])])])
    /\ UNCHANGED <<rngVars, pipeVars, allocVars, batchVars, simVars, curveVars,
                   models, train_completed, forecasters, historical_data, riskVars, extVars>>

\* the skus the pipeline is asked about
SkuIds == {1, 2}

\* InventoryDecisionPipeline.train_forecaster: the history is stored first, the
\* forecaster only once its train() has returned
TrainForecaster ==
    /\ fcResult # None
    /\ \E sku_id \in SkuIds,
          history_days \in {MinSalesDays, LagWindow + MinTrainingSamples} :
           /\ historical_data' = historical_data \cup {sku_id}
           /\ forecasters' = IF TrainSucceeds(history_days)
                             THEN forecasters \cup {sku_id}
                             ELSE forecasters
           /\ fcResult' = Some([op |-> "train_forecaster", sku_id |-> sku_id,
                                raised |-> ~ TrainSucceeds(history_days)])
    /\ UNCHANGED <<rngVars, pipeVars, allocVars, batchVars, simVars, curveVars,
                   models, train_completed, riskVars, extVars>>

\* what run_pipeline did: whether it raised, the draws its simulations made
RunPipelineOutcome(sku_id, r, pos) ==
    [op |-> "run_pipeline", sku_id |-> sku_id, raised |-> r.raised,
     draws |-> r.pos - pos,
     optimized |-> IF r.raised THEN FALSE ELSE TRUE]

\* the run_pipeline call made for a sku, and where it leaves the stream
RunPipelineCalled(sku_id, r) ==
    /\ fcResult' = Some(RunPipelineOutcome(sku_id, r, rngPos))
    /\ rngPos' = r.pos % StreamLen

\* InventoryDecisionPipeline.run_pipeline(sku_id, ...): the check of
\* self.forecasters comes first
RunPipelineForSku ==
    /\ fcResult # None
    /\ \E sku_id \in SkuIds :
           IF sku_id \notin forecasters
           THEN RunPipelineCalled(sku_id, Raised("ValueError", rngPos))
           ELSE RunPipelineCalled(sku_id,
                    RunPipeline(PipelineArgs(GoodProduct(0, 1), None, None), rngPos))
    /\ UNCHANGED <<rngStream, pipeVars, allocVars, batchVars, simVars, curveVars,
                   models, train_completed, forecasters, historical_data, riskVars, extVars>>

----------------------------------------------------------------------------
(* The risk categories attached to a pair of stockout probabilities, each a    *)
(* count of riskInput.trials trials: by the RiskEstimator, as the ReorderDecision *)
(* of services.py takes them, and by map_risk_category of the AIService         *)

CategorizeRisks ==
    /\ riskInput # None
    /\ riskOut = None
    /\ riskOut' = Some(
           [risk_category_before |->
                CategorizeRiskOf(riskInput[1].before, riskInput[1].trials),
            risk_category_after |->
                CategorizeRiskOf(riskInput[1].after, riskInput[1].trials),
            mapped_before |->
                MapRiskCategory(riskInput[1].before, riskInput[1].trials),
            mapped_after |->
                MapRiskCategory(riskInput[1].after, riskInput[1].trials)])
    /\ UNCHANGED <<rngVars, pipeVars, allocVars, batchVars, simVars, curveVars,
                   fcVars, riskInput, extVars>>

----------------------------------------------------------------------------
(* CostModel.compute_understock_cost called on its own *)

\* compute_understock_cost(unmet_demand, stockout_occurred) for each
\* unmet_demand of 0 .. MaxUnmet, in that order
UnderstockCosts ==
    /\ costInput # None
    /\ costOut = <<>>
    /\ costOut' = AsList([k \in 1 .. MaxUnmet + 1 |->
                      ComputeUnderstockCost(costInput[1].cm, k - 1,
                                            costInput[1].stockout_occurred)])
    /\ UNCHANGED <<rngVars, pipeVars, allocVars, batchVars, simVars, unitVars,
                   notCost, costInput>>

----------------------------------------------------------------------------
(* SizeShareForecaster.forecast: shares are ShareDen-ths before the            *)
(* normalisation and fractions [num, den] after it                            *)

\* np.clip(share_predictions, 0, 1)
ClipShare(p) == IF p < 0 THEN 0 ELSE IF p > ShareDen THEN ShareDen ELSE p

\* the sizes whose share model was skipped by train()
UntrainedSizes(share_models) == {z \in DOMAIN share_models : share_models[z] = None}

\* size_shares[size]['values'] of a trained size before the normalisation
ShareValues(share_models, z) ==
    AsList([i \in 1 .. ShareHorizon |-> ClipShare(share_models[z][1][i])])

\* total_share of day i
TotalShare(share_models, i) ==
    SumSeq(AsList([z \in DOMAIN share_models |-> ShareValues(share_models, z)[i]]))

\* the value of day i after the normalisation loop: divided by total_share when
\* that is positive, left alone otherwise
NormalizedShare(share_models, z, i) ==
    IF TotalShare(share_models, i) > 0
    THEN [num |-> ShareValues(share_models, z)[i], den |-> TotalShare(share_models, i)]
    ELSE [num |-> ShareValues(share_models, z)[i], den |-> ShareDen]

\* forecast(): the branch of a size without a model multiplies a list by the
\* float default_share, which raises TypeError; otherwise the normalised shares
SizeShareForecast(share_models) ==
    IF UntrainedSizes(share_models) # {}
    THEN [raised |-> TRUE, size_shares |-> <<>>]
    ELSE [raised |-> FALSE,
          size_shares |-> AsList([z \in DOMAIN share_models |->
                              AsList([i \in 1 .. ShareHorizon |->
                                          NormalizedShare(share_models, z, i)])])]

ForecastSizeShares ==
    /\ size_share_models # <<>>
    /\ shareOut = None
    /\ shareOut' = Some(SizeShareForecast(size_share_models))
    /\ UNCHANGED <<rngVars, pipeVars, allocVars, batchVars, simVars, unitVars,
                   notShare, size_share_models>>

----------------------------------------------------------------------------
(* SizeCurveOptimizer on a style of the sizes '8' and '9'; a curve is the     *)
(* sequence of their quantities, money is kept in 1/10000                     *)

\* FootwearCostModel.compute_size_overstock_cost with the default holding period
ComputeSizeOverstockCost(excess_units, unit_cost) ==
    IF excess_units <= 0 THEN 0
    ELSE excess_units * unit_cost
             * (100 + HoldingCostRatePct + FootwearMarkdownPct) * OverstockMultiplierPct

\* FootwearCostModel.compute_size_understock_cost, stockout_occurred left False
ComputeSizeUnderstockCost(unmet_demand, selling_price, unit_cost) ==
    IF unmet_demand <= 0 THEN 0
    ELSE unmet_demand * (selling_price - unit_cost) * 100 * UnderstockMultiplierPct

\* ending_inventory = current_inv + order_qty - size_demand_p50
EndingInventory(a, curve, z) == a.current_inventory_by_size[z] + curve[z] - a.size_demand_p50[z]

\* size_loss of one size
SizeLoss(a, curve, z) ==
    IF EndingInventory(a, curve, z) > 0
    THEN ComputeSizeOverstockCost(EndingInventory(a, curve, z), a.unit_cost)
    ELSE ComputeSizeUnderstockCost(Abs(EndingInventory(a, curve, z)),
                                   a.selling_price, a.unit_cost)

\* revenue_protected of one size
RevenueProtected(a, curve, z) ==
    IF EndingInventory(a, curve, z) >= 0
    THEN Min(a.size_demand_p50[z], a.current_inventory_by_size[z] + curve[z])
             * a.selling_price * 100 * 100
    ELSE 0

\* evaluate_size_curve; expected_return_per_rupee is the fraction num / den
EvaluateSizeCurve(a, curve) ==
    LET total_cash == SumSeq(AsList([z \in DOMAIN curve |-> curve[z] * a.unit_cost]))
        expected_loss == SumSeq(AsList([z \in DOMAIN curve |-> SizeLoss(a, curve, z)]))
        expected_upside ==
            SumSeq(AsList([z \in DOMAIN curve |-> RevenueProtected(a, curve, z)]))
    IN  [size_breakdown |-> curve,
         total_cash |-> total_cash,
         expected_loss |-> expected_loss,
         expected_upside |-> expected_upside,
         expected_return_per_rupee |->
             [num |-> expected_upside - expected_loss, den |-> Max(total_cash, 1)]]

\* x['expected_return_per_rupee'] of c is below that of d
ReturnBelow(c, d) ==
    c.expected_return_per_rupee.num * d.expected_return_per_rupee.den
        < d.expected_return_per_rupee.num * c.expected_return_per_rupee.den

\* `if available_cash and result['total_cash'] > available_cash: continue`
OverCashCap(available_cash, result) ==
    /\ available_cash # None
    /\ available_cash[1] # 0
    /\ result.total_cash > available_cash[1]

RECURSIVE StyleCandidates(_, _)
\* the candidates list after the loop over size_curve_templates
StyleCandidates(a, templates) ==
    IF templates = <<>> THEN <<>>
    ELSE (IF OverCashCap(a.available_cash, EvaluateSizeCurve(a, Head(templates)))
          THEN <<>>
          ELSE <<EvaluateSizeCurve(a, Head(templates))>>)
         \o StyleCandidates(a, Tail(templates))

RECURSIVE InsertByReturn(_, _)
\* c placed behind every element whose return per rupee is not smaller
InsertByReturn(sorted, c) ==
    IF sorted = <<>> THEN <<c>>
    ELSE IF ReturnBelow(Head(sorted), c)
         THEN <<c>> \o sorted
         ELSE <<Head(sorted)>> \o InsertByReturn(Tail(sorted), c)

RECURSIVE SortedByReturn(_)
\* candidates.sort(key=expected_return_per_rupee, reverse=True): descending, stable
SortedByReturn(candidates) ==
    IF candidates = <<>> THEN <<>>
    ELSE InsertByReturn(SortedByReturn(SubSeq(candidates, 1, Len(candidates) - 1)),
                        candidates[Len(candidates)])

\* optimize_style_reorder: None, or the first of the sorted candidates
OptimizeStyleReorder(a) ==
    IF StyleCandidates(a, a.size_curve_templates) = <<>> THEN None
    ELSE Some(SortedByReturn(StyleCandidates(a, a.size_curve_templates))[1])

StyleReorder ==
    /\ styleInput # None
    /\ styleOut = None
    /\ styleOut' = Some([returned |-> OptimizeStyleReorder(styleInput[1])])
    /\ UNCHANGED <<rngVars, pipeVars, allocVars, batchVars, simVars, unitVars,
                   notStyle, styleInput>>

----------------------------------------------------------------------------
(* Accepting and rejecting a reorder decision: the endpoints of               *)
(* app/api/decisions.py (layer "api") and InventoryService (layer "service")  *)

\* the status test left out
DecisionFound_Any(status) == TRUE

\* the decision is found, with status PENDING (api), or passes the test
\* `decision.status != "pending"` (service)
DecisionFound(status) == status = "pending"

\* the service raises when the product has no inventory row; the endpoint goes on
InventoryRequired(layer) == layer = "service"

\* what commit() writes for a request that passed the checks: the quantity the
\* session loaded plus recommended_quantity, and the new status
Committed(op, loaded_quantity, quantity, recommended_quantity) ==
    IF op = "accept"
    THEN [status |-> "accepted",
          quantity |-> IF loaded_quantity = None THEN quantity
                       ELSE Some(loaded_quantity[1] + recommended_quantity)]
    ELSE [status |-> "rejected", quantity |-> quantity]

\* a whole accept_decision or reject_decision call on the committed state
DecisionCall(layer, op, status, quantity, recommended_quantity) ==
    IF ~ DecisionFound(status)
    THEN [ok |-> FALSE, status |-> status, quantity |-> quantity]
    ELSE IF op = "accept" /\ quantity = None /\ InventoryRequired(layer)
    THEN [ok |-> FALSE, status |-> status, quantity |-> quantity]
    ELSE [ok |-> TRUE,
          status |-> Committed(op, quantity, quantity, recommended_quantity).status,
          quantity |-> Committed(op, quantity, quantity, recommended_quantity).quantity]

\* one call run to its end before the next starts
Decide(op) ==
    /\ LET r == DecisionCall(decInput[1].layer, op, decision_status,
                             inventory_quantity, decInput[1].recommended_quantity)
       IN  /\ decision_status' = r.status
           /\ inventory_quantity' = r.quantity
           /\ decCalls' = Append(decCalls, [op |-> op, ok |-> r.ok,
                                            status |-> r.status,
                                            quantity |-> r.quantity])
    /\ UNCHANGED <<rngVars, pipeVars, allocVars, batchVars, simVars, unitVars,
                   notDec, decInput, decReqs>>

\* accept_decision
AcceptDecision ==
    /\ decInput # None
    /\ decReqs = <<>>
    /\ Len(decCalls) < MaxDecisionCalls
    /\ Decide("accept")

\* reject_decision
RejectDecision ==
    /\ decInput # None
    /\ decReqs = <<>>
    /\ Len(decCalls) < MaxDecisionCalls
    /\ Decide("reject")

\* request i moves to pc, having loaded quantity
Moved(i, pc_, loaded) ==
    decReqs' = [decReqs EXCEPT ![i] = [@ EXCEPT !.pc = pc_, !.loaded_quantity = loaded]]

\* the first query of request i: the decision, with the status committed by now
QueryDecision(i) ==
    /\ decReqs[i].pc = "start"
    /\ Moved(i, IF DecisionFound(decision_status) THEN "found" ELSE "failed", None)
    /\ UNCHANGED <<rngVars, pipeVars, allocVars, batchVars, simVars, unitVars,
                   notDec, decInput, decision_status, inventory_quantity, decCalls>>

\* the second query of an accept: the inventory row as committed by now
QueryInventory(i) ==
    /\ decReqs[i].pc = "found"
    /\ decReqs[i].op = "accept"
    /\ Moved(i, IF inventory_quantity = None /\ InventoryRequired(decInput[1].layer)
                THEN "failed" ELSE "loaded", inventory_quantity)
    /\ UNCHANGED <<rngVars, pipeVars, allocVars, batchVars, simVars, unitVars,
                   notDec, decInput, decision_status, inventory_quantity, decCalls>>

\* db.commit() of request i: the UPDATEs of the values the session computed
CommitDecision(i) ==
    /\ \/ decReqs[i].op = "accept" /\ decReqs[i].pc = "loaded"
       \/ decReqs[i].op = "reject" /\ decReqs[i].pc = "found"
    /\ LET w == Committed(decReqs[i].op, decReqs[i].loaded_quantity,
                          inventory_quantity, decInput[1].recommended_quantity)
       IN  /\ decision_status' = w.status
           /\ inventory_quantity' = w.quantity
    /\ Moved(i, "done", decReqs[i].loaded_quantity)
    /\ UNCHANGED <<rngVars, pipeVars, allocVars, batchVars, simVars, unitVars,
                   notDec, decInput, decCalls>>

----------------------------------------------------------------------------
(* AIService with its cache of pipelines, for one product; a sales history is *)
(* its number of days and the demand level the forecast learns from it        *)

\* the sales histories a product may have: none, too short to train on, and
\* trainable ones of two demand levels
SalesHistories ==
    {[days |-> 0, level |-> 1],
     [days |-> LagWindow + MinTrainingSamples - 1, level |-> 1],
     [days |-> LagWindow + MinTrainingSamples, level |-> 1],
     [days |-> LagWindow + MinTrainingSamples, level |-> 2]}

\* the unit costs a product may be given
UnitCosts == {1, 2}

\* the forecast a forecaster trained on history makes from that history
ForecastFrom(history) ==
    AsList([day \in 1 .. HorizonDays |-> [mean |-> history.level, std |-> 1]])

\* InventoryDecisionPipeline(...): the cost model's fields, no forecaster yet
NewPipeline(product) ==
    [unit_cost |-> product.unit_cost,
     selling_price |-> product.selling_price,
     holding_cost_rate |-> product.holding_cost_rate,
     markdown_rate |-> product.markdown_rate,
     churn_penalty |-> product.churn_penalty,
     forecaster |-> None,
     historical_data |-> None]

\* pipeline.train_forecaster: the history is stored before train() may raise
TrainedPipeline(pipeline, history) ==
    [pipeline EXCEPT !.historical_data = Some(history),
                     !.forecaster = IF TrainSucceeds(history.days)
                                    THEN Some(history) ELSE None]

\* the arguments of the pipeline's run: the product's stock and order limits,
\* the pipeline's own cost model and the forecast from its stored history
CachedPipelineArgs(pipeline, product) ==
    [PipelineArgs(product, None, None) EXCEPT
         !.unit_cost = pipeline.unit_cost,
         !.selling_price = pipeline.selling_price,
         !.holding_cost_rate = pipeline.holding_cost_rate,
         !.markdown_rate = pipeline.markdown_rate,
         !.churn_penalty = pipeline.churn_penalty,
         !.forecast_df = ForecastFrom(pipeline.historical_data[1])]

\* generate_recommendation from `historical_df = ...` on, with the pipeline
\* get_or_create_pipeline returned: .pipeline is the cache entry afterwards
RecommendWith(pipeline, product, history, pos) ==
    IF history.days = 0
    THEN [pipeline |-> pipeline, outcome |-> Raised("ValueError", pos)]
    ELSE IF pipeline.forecaster # None
    THEN [pipeline |-> pipeline,
          outcome |-> Recommendation(product,
                          RunPipeline(CachedPipelineArgs(pipeline, product), pos))]
    ELSE IF ~ TrainSucceeds(history.days)
    THEN [pipeline |-> TrainedPipeline(pipeline, history),
          outcome |-> Raised("ValueError", pos)]
    ELSE [pipeline |-> TrainedPipeline(pipeline, history),
          outcome |-> Recommendation(product,
                          RunPipeline(CachedPipelineArgs(
                              TrainedPipeline(pipeline, history), product), pos))]

\* generate_recommendation: a pipeline made now seeds the random stream anew
ServiceRecommendation(cache, product, history, pos) ==
    IF cache = None
    THEN RecommendWith(NewPipeline(product), product, history, 0)
    ELSE RecommendWith(cache[1], product, history, pos)

\* AIService.generate_recommendation(product, inventory, sales_history)
ServiceGenerateRecommendation ==
    /\ aiProduct # None
    /\ aiEvents < MaxServiceEvents
    /\ aiEvents' = aiEvents + 1
    /\ pipelines' = Some(ServiceRecommendation(pipelines, aiProduct[1],
                                               aiHistory[1], rngPos).pipeline)
    /\ aiRec' = Some(Outcome(ServiceRecommendation(pipelines, aiProduct[1],
                                                   aiHistory[1], rngPos).outcome))
    /\ rngPos' = ServiceRecommendation(pipelines, aiProduct[1],
                                       aiHistory[1], rngPos).outcome.pos % StreamLen
    /\ UNCHANGED <<rngStream, pipeVars, allocVars, batchVars, simVars, unitVars,
                   notAi, aiProduct, aiHistory>>

\* a sales upload: the product's history is another one from now on
UploadSales ==
    /\ aiProduct # None
    /\ aiEvents < MaxServiceEvents
    /\ aiEvents' = aiEvents + 1
    /\ \E h \in SalesHistories \ {aiHistory[1]} : aiHistory' = Some(h)
    /\ UNCHANGED <<rngVars, pipeVars, allocVars, batchVars, simVars, unitVars,
                   notAi, aiProduct, pipelines, aiRec>>

\* an update of the product's economics: another unit_cost from now on
UpdateEconomics ==
    /\ aiProduct # None
    /\ aiEvents < MaxServiceEvents
    /\ aiEvents' = aiEvents + 1
    /\ \E c \in UnitCosts \ {aiProduct[1].unit_cost} :
           aiProduct' = Some([aiProduct[1] EXCEPT !.unit_cost = c])
    /\ UNCHANGED <<rngVars, pipeVars, allocVars, batchVars, simVars, unitVars,
                   notAi, aiHistory, pipelines, aiRec>>

----------------------------------------------------------------------------
(* Initial states *)

RngIdle ==
    /\ rngStream = [i \in 1 .. StreamLen |-> 1]
    /\ rngPos = 0

PipeIdle ==
    /\ cfg = None
    /\ pc = "idle"
    /\ feasible_quantities = <<>>
    /\ current_risk = None
    /\ optimization_result = None
    /\ optSims = 0
    /\ comparison_result = None
    /\ pipeline_result = [status |-> "idle"]

AllocIdle ==
    /\ sku_data = <<>>
    /\ baseline_quantities = <<>>
    /\ total_available_cash = 0
    /\ apc = "idle"
    /\ rankings = <<>>
    /\ rowIdx = 0
    /\ allocations = <<>>
    /\ total_cash_used = 0
    /\ allocation_order = <<>>

BatchIdle ==
    /\ products = <<>>
    /\ batchIdx = 0
    /\ recommendations = <<>>
    /\ bpc = "idle"
    /\ batchArgs = None

SimIdle ==
    /\ simInput = None
    /\ simCalls = <<>>

CurveIdle ==
    /\ curveInput = None
    /\ valid_curves = <<>>

ForecasterIdle ==
    /\ models = {}
    /\ train_completed = FALSE
    /\ forecasters = {}
    /\ historical_data = {}
    /\ fcResult = None

RiskIdle ==
    /\ riskInput = None
    /\ riskOut = None

UnitIdle ==
    /\ CurveIdle
    /\ ForecasterIdle
    /\ RiskIdle

CostIdle ==
    /\ costInput = None
    /\ costOut = <<>>

ShareIdle ==
    /\ size_share_models = <<>>
    /\ shareOut = None

StyleIdle ==
    /\ styleInput = None
    /\ styleOut = None

DecIdle ==
    /\ decInput = None
    /\ decision_status = "pending"
    /\ inventory_quantity = None
    /\ decCalls = <<>>
    /\ decReqs = <<>>

AiIdle ==
    /\ aiProduct = None
    /\ aiHistory = None
    /\ pipelines = None
    /\ aiRec = None
    /\ aiEvents = 0

ExtIdle ==
    /\ CostIdle
    /\ ShareIdle
    /\ StyleIdle
    /\ DecIdle
    /\ AiIdle

NotCostIdle ==
    /\ ShareIdle
    /\ StyleIdle
    /\ DecIdle
    /\ AiIdle

NotShareIdle ==
    /\ CostIdle
    /\ StyleIdle
    /\ DecIdle
    /\ AiIdle

NotStyleIdle ==
    /\ CostIdle
    /\ ShareIdle
    /\ DecIdle
    /\ AiIdle

NotDecIdle ==
    /\ CostIdle
    /\ ShareIdle
    /\ StyleIdle
    /\ AiIdle

NotAiIdle ==
    /\ CostIdle
    /\ ShareIdle
    /\ StyleIdle
    /\ DecIdle

RestIdle ==
    /\ BatchIdle
    /\ SimIdle
    /\ UnitIdle
    /\ ExtIdle

\* the calls of run_pipeline tried, with the fields of the pipeline's cost model
PipeConfigs ==
    [unit_cost : {1, 2},
     selling_price : {3},
     holding_cost_rate : {2},
     markdown_rate : {0},
     churn_penalty : {1},
     forecast_df : {ForecastOfLen(2)},
     current_inventory : {0, 2},
     lead_time_days : {1, 2, 3},
     min_order_quantity : {0, 1, 2},
     max_order_quantity : {1, 3, 12},
     order_multiple : {1, 2},
     available_cash : Optional({1, 12}),
     holding_period_months : {1},
     naive_quantity : Optional({1})]

PipeInit ==
    /\ rngStream \in [1 .. StreamLen -> Zs]
    /\ rngPos = 0
    /\ cfg \in PipeConfigs
    /\ pc = "risk"
    /\ feasible_quantities = <<>>
    /\ current_risk = None
    /\ optimization_result = None
    /\ optSims = 0
    /\ comparison_result = None
    /\ pipeline_result = [status |-> "running"]
    /\ AllocIdle
    /\ RestIdle

PipeNext ==
    \/ PipeEstimateRisk
    \/ PipeOptimize
    \/ PipeCompare
    \/ PipeExplain
    \/ PipeReturn

\* one run_pipeline call on a trained pipeline
SpecPipe == PipeInit /\ [][PipeNext]_vars

\* the calls of optimize_reorder tried, with the fields of the optimizer's cost
\* model
OptConfigs ==
    [unit_cost : {1, 2},
     selling_price : {3},
     holding_cost_rate : {2},
     markdown_rate : {0},
     churn_penalty : {1},
     forecast_df : {ForecastOfLen(2)},
     current_inventory : {0, 2},
     lead_time_days : {1, 2, 3},
     min_order_quantity : {0, 1, 2},
     max_order_quantity : {1, 3},
     order_multiple : {1, 2},
     available_cash : Optional({1, 4}),
     holding_period_months : {1},
     step_size : {1, 2}]

OptInit ==
    /\ rngStream \in [1 .. StreamLen -> Zs]
    /\ rngPos = 0
    /\ cfg \in OptConfigs
    /\ pc = "opt"
    /\ feasible_quantities = <<>>
    /\ current_risk = None
    /\ optimization_result = None
    /\ optSims = 0
    /\ comparison_result = None
    /\ pipeline_result = [status |-> "running"]
    /\ AllocIdle
    /\ RestIdle

\* a call of optimize_reorder; it raises when a simulation it starts does
OptCall ==
    /\ pc = "opt"
    /\ LET o == OptimizeReorder(cfg, cfg, cfg.available_cash, cfg.step_size, rngPos)
       IN  /\ feasible_quantities' = o.feasible
           /\ optSims' = o.sims
           /\ IF o.raised
              THEN /\ pc' = "opt_raised"
                   /\ UNCHANGED <<optimization_result, rngPos>>
              ELSE /\ pc' = "opt_done"
                   /\ optimization_result' = Some(o.result)
                   /\ rngPos' = o.pos % StreamLen
    /\ UNCHANGED <<rngStream, cfg, current_risk, comparison_result,
                   pipeline_result, allocVars, restVars>>

\* one optimize_reorder call
SpecOpt == OptInit /\ [][OptCall]_vars

\* the calls of find_feasible_order_quantities tried
FeasConfigs ==
    [unit_cost : 1 .. 3,
     min_order_quantity : 0 .. MaxQ,
     max_order_quantity : 0 .. MaxQ,
     order_multiple : 1 .. 3,
     available_cash : Optional(0 .. 2 * MaxQ),
     step_size : 1 .. 3]

FeasInit ==
    /\ RngIdle
    /\ cfg \in FeasConfigs
    /\ pc = "feas"
    /\ feasible_quantities = <<>>
    /\ current_risk = None
    /\ optimization_result = None
    /\ optSims = 0
    /\ comparison_result = None
    /\ pipeline_result = [status |-> "running"]
    /\ AllocIdle
    /\ RestIdle

\* a call of find_feasible_order_quantities
FeasCall ==
    /\ pc = "feas"
    /\ feasible_quantities' = FindFeasibleOrderQuantities(cfg.min_order_quantity,
           cfg.max_order_quantity, cfg.order_multiple, cfg.available_cash,
           cfg.unit_cost, cfg.step_size)
    /\ pc' = "feas_done"
    /\ UNCHANGED <<rngVars, cfg, current_risk, optimization_result, optSims,
                   comparison_result, pipeline_result, allocVars, restVars>>

SpecFeas == FeasInit /\ [][FeasCall]_vars

\* the SKUs tried: their cost model and the arguments of their optimization
SkuProfile(selling_price, min_order_quantity, max_order_quantity, lead_time_days) ==
    [unit_cost |-> 1,
     selling_price |-> selling_price,
     holding_cost_rate |-> 2,
     markdown_rate |-> 0,
     churn_penalty |-> 0,
     forecast_df |-> ForecastOfLen(2),
     current_inventory |-> 0,
     lead_time_days |-> lead_time_days,
     min_order_quantity |-> min_order_quantity,
     max_order_quantity |-> max_order_quantity,
     order_multiple |-> 1,
     holding_period_months |-> 1]

SkuConfigs ==
    { SkuProfile(sp, mn, 5, 1) : sp \in {2, 6}, mn \in {2, 3} }
        \cup { SkuProfile(2, 1, 0, 1),     \* no feasible quantity: max below min
               SkuProfile(2, 1, 5, 3) }    \* lead time beyond the forecast

\* the streams tried for the allocator: every draw low, or every draw high
AllocStreams == { [i \in 1 .. StreamLen |-> z] : z \in Zs }

AllocInit ==
    /\ rngStream \in AllocStreams
    /\ rngPos = 0
    /\ PipeIdle
    /\ RestIdle
    /\ sku_data \in [1 .. NumSkus -> SkuConfigs]
    /\ baseline_quantities \in [1 .. NumSkus -> {0, 1, 3}]
    /\ total_available_cash \in {0, 2, 4}
    /\ apc = "rank"
    /\ rankings = <<>>
    /\ rowIdx = 0
    /\ allocations = <<>>
    /\ total_cash_used = 0
    /\ allocation_order = <<>>

AllocNext ==
    \/ AllocRank
    \/ AllocSort
    \/ AllocStep
    \/ AllocReturn

\* one allocate_capital call, as run_multi_sku_pipeline makes it
SpecAlloc == AllocInit /\ [][AllocNext]_vars

\* the products tried: good ones (the second has the quantity 0 as its only
\* candidate), and one for each way a product can fail
ProductProfiles ==
    { GoodProduct(0, 1),
      [GoodProduct(0, 0) EXCEPT !.order_multiple = 3 * ServiceMaxQ],
      [GoodProduct(0, 1) EXCEPT !.has_inventory = FALSE],
      [GoodProduct(0, 1) EXCEPT !.history_days = 0],
      [GoodProduct(0, 1) EXCEPT !.history_days = LagWindow + MinTrainingSamples - 1],
      [GoodProduct(0, 1) EXCEPT !.lead_time_days = HorizonDays + 1],
      [GoodProduct(0, 1) EXCEPT !.order_multiple = 3 * ServiceMaxQ] }

\* the batch calls tried
BatchCalls ==
    { [handler |-> "recommendations", cash |-> c, baseline_quantities |-> <<>>] :
          c \in Optional({5}) }
    \cup { [handler |-> "decisions", cash |-> None,
            baseline_quantities |-> [i \in 1 .. NumProducts |-> None]],
           [handler |-> "decisions", cash |-> Some(ServiceMaxQ),
            baseline_quantities |-> [i \in 1 .. NumProducts |-> Some(1)]] }

BatchInit ==
    /\ rngStream \in [1 .. StreamLen -> Zs]
    /\ rngPos = 0
    /\ PipeIdle
    /\ AllocIdle
    /\ SimIdle
    /\ UnitIdle
    /\ ExtIdle
    /\ \E profiles \in [1 .. NumProducts -> ProductProfiles] :
           products = [i \in 1 .. NumProducts |-> [profiles[i] EXCEPT !.id = i]]
    /\ batchArgs \in BatchCalls
    /\ batchIdx = 1
    /\ recommendations = <<>>
    /\ bpc = "loop"

BatchNext ==
    \/ RecStep
    \/ RecReturn
    \/ DecStep
    \/ DecReturn

\* one batch call of a freshly created service
SpecBatch == BatchInit /\ [][BatchNext]_vars

\* the arguments tried for the calls on one simulator
SimInput(current_inventory, lead_time_days, max_order_quantity) ==
    [unit_cost |-> 1,
     selling_price |-> 3,
     holding_cost_rate |-> 2,
     markdown_rate |-> 0,
     churn_penalty |-> 1,
     forecast_df |-> ForecastOfLen(HorizonDays),
     current_inventory |-> current_inventory,
     lead_time_days |-> lead_time_days,
     reorder_quantity |-> 1,
     min_order_quantity |-> 1,
     max_order_quantity |-> max_order_quantity,
     order_multiple |-> 1,
     holding_period_months |-> 1]

SimInputs ==
    { SimInput(inv, lead, mx) :
          inv \in 0 .. 2, lead \in 1 .. HorizonDays + 1, mx \in {0, 2} }

\* DemandSimulator.__init__ has seeded the stream; nothing has been called yet
SimInit ==
    /\ rngStream \in [1 .. StreamLen -> Zs]
    /\ rngPos = 0
    /\ PipeIdle
    /\ AllocIdle
    /\ BatchIdle
    /\ UnitIdle
    /\ ExtIdle
    /\ simInput \in { Some(i) : i \in SimInputs }
    /\ simCalls = <<>>

SimNext ==
    \/ SimSimulate
    \/ SimEstimateRisk
    \/ SimExpectedLoss
    \/ SimOptimize

\* a sequence of calls on one simulator instance and the objects built on it
SpecSim == SimInit /\ [][SimNext]_vars

\* the size distributions tried: up to MaxSizes shares, non-negative, summing to 1
SizeDistributions ==
    UNION { { d \in [1 .. n -> 0 .. ShareDen] : SumSeq(d) = ShareDen } :
                n \in 1 .. MaxSizes }

CurveInit ==
    /\ RngIdle
    /\ PipeIdle
    /\ AllocIdle
    /\ BatchIdle
    /\ SimIdle
    /\ ForecasterIdle
    /\ RiskIdle
    /\ ExtIdle
    /\ \E d \in SizeDistributions, mn \in 1 .. MaxOrderTotal, om \in 1 .. 2,
          mx \in Optional({0, MaxOrderTotal + 1}) :
           curveInput = Some([size_distribution |-> d, min_order_total |-> mn,
                              order_multiple |-> om, max_order_total |-> mx])
    /\ valid_curves = <<>>

\* one call of generate_valid_size_curves
SpecCurve == CurveInit /\ [][GenerateValidSizeCurves]_vars

\* a new DemandForecaster and a new pipeline: nothing trained
ForecasterInit ==
    /\ RngIdle
    /\ PipeIdle
    /\ AllocIdle
    /\ BatchIdle
    /\ SimIdle
    /\ CurveIdle
    /\ RiskIdle
    /\ ExtIdle
    /\ models = {}
    /\ train_completed = FALSE
    /\ forecasters = {}
    /\ historical_data = {}
    /\ fcResult = Some([op |-> "init", raised |-> FALSE])

ForecasterNext ==
    \/ Train
    \/ Forecast
    \/ TrainForecaster
    \/ RunPipelineForSku

\* any sequence of train/forecast calls on one forecaster and of
\* train_forecaster/run_pipeline calls on one pipeline
SpecForecaster == ForecasterInit /\ [][ForecasterNext]_vars

\* the probabilities before and after a reorder, every count of the trials
RiskInit ==
    /\ RngIdle
    /\ PipeIdle
    /\ AllocIdle
    /\ BatchIdle
    /\ SimIdle
    /\ CurveIdle
    /\ ForecasterIdle
    /\ ExtIdle
    /\ \E before \in 0 .. RiskTrials, after \in 0 .. RiskTrials :
           riskInput = Some([trials |-> RiskTrials, before |-> before,
                             after |-> after])
    /\ riskOut = None

\* the categorization of one recommendation's probabilities
SpecRisk == RiskInit /\ [][CategorizeRisks]_vars

\* the cost models tried: the constructor checks none of its arguments, so the
\* selling price may be below the unit cost
CostModels ==
    { [unit_cost |-> uc, selling_price |-> sp, holding_cost_rate |-> 2,
       markdown_rate |-> 0, churn_penalty |-> cp] :
          uc \in 1 .. 3, sp \in 1 .. 3, cp \in 0 .. 2 }

CostInit ==
    /\ RngIdle
    /\ PipeIdle
    /\ AllocIdle
    /\ BatchIdle
    /\ SimIdle
    /\ UnitIdle
    /\ NotCostIdle
    /\ \E cm \in CostModels, occurred \in BOOLEAN :
           costInput = Some([cm |-> cm, stockout_occurred |-> occurred])
    /\ costOut = <<>>

\* compute_understock_cost of one cost model over a range of unmet demands
SpecCost == CostInit /\ [][UnderstockCosts]_vars

\* what a share model predicts for one day, in ShareDen-ths
SharePreds == {-1, 0, 2, ShareDen + 2}

\* a size after train(): no model, or a model with its prediction of each day
ShareModels == {None} \cup {Some(p) : p \in [1 .. ShareHorizon -> SharePreds]}

ShareInit ==
    /\ RngIdle
    /\ PipeIdle
    /\ AllocIdle
    /\ BatchIdle
    /\ SimIdle
    /\ UnitIdle
    /\ NotShareIdle
    /\ size_share_models \in [1 .. ShareSizes -> ShareModels]
    /\ shareOut = None

\* forecast() of a trained SizeShareForecaster
SpecShare == ShareInit /\ [][ForecastSizeShares]_vars

\* the factory curves a template may carry
SizeCurves == [1 .. 2 -> 0 .. MaxCurveQty]

\* the template lists tried
TemplateLists ==
    UNION { [1 .. n -> SizeCurves] : n \in 0 .. MaxTemplates }

StyleInputs ==
    [size_curve_templates : TemplateLists,
     size_demand_p50 : {<<1, 2>>},
     current_inventory_by_size : {<<0, 0>>},
     unit_cost : {1, 2},
     selling_price : {3},
     available_cash : Optional({0, 2, 3})]

StyleInit ==
    /\ RngIdle
    /\ PipeIdle
    /\ AllocIdle
    /\ BatchIdle
    /\ SimIdle
    /\ UnitIdle
    /\ NotStyleIdle
    /\ styleInput \in { Some(a) : a \in StyleInputs }
    /\ styleOut = None

\* one call of optimize_style_reorder
SpecStyle == StyleInit /\ [][StyleReorder]_vars

\* a pending decision, the product's stock, and the layer the calls go to
DecisionInputs ==
    [recommended_quantity : 1 .. MaxRecQty,
     initial_quantity : Optional({0, 1}),
     layer : {"api", "service"}]

DecisionCreated ==
    /\ RngIdle
    /\ PipeIdle
    /\ AllocIdle
    /\ BatchIdle
    /\ SimIdle
    /\ UnitIdle
    /\ NotDecIdle
    /\ decInput \in { Some(a) : a \in DecisionInputs }
    /\ decision_status = "pending"
    /\ inventory_quantity = decInput[1].initial_quantity
    /\ decCalls = <<>>

DecisionInit ==
    /\ DecisionCreated
    /\ decReqs = <<>>

DecisionNext ==
    \/ AcceptDecision
    \/ RejectDecision

\* accept and reject calls on one decision, one after another
SpecDecision == DecisionInit /\ [][DecisionNext]_vars

DecisionRaceInit ==
    /\ DecisionCreated
    /\ decReqs \in [1 .. NumRequests ->
                      [op : {"accept", "reject"}, pc : {"start"},
                       loaded_quantity : {None}]]

DecisionRaceNext ==
    \E i \in 1 .. NumRequests :
        \/ QueryDecision(i)
        \/ QueryInventory(i)
        \/ CommitDecision(i)

\* requests on one decision, each in its own session, interleaved at their
\* queries and commits
SpecDecisionRace == DecisionRaceInit /\ [][DecisionRaceNext]_vars

\* AIService.__init__: no pipeline cached; the product and its history exist
ServiceInit ==
    /\ rngStream \in [1 .. StreamLen -> Zs]
    /\ rngPos = 0
    /\ PipeIdle
    /\ AllocIdle
    /\ BatchIdle
    /\ SimIdle
    /\ UnitIdle
    /\ NotAiIdle
    /\ \E c \in UnitCosts : aiProduct = Some([GoodProduct(0, 1) EXCEPT !.unit_cost = c])
    /\ aiHistory \in { Some(h) : h \in SalesHistories }
    /\ pipelines = None
    /\ aiRec = None
    /\ aiEvents = 0

ServiceNext ==
    \/ ServiceGenerateRecommendation
    \/ UploadSales
    \/ UpdateEconomics

\* uploads, updates and generate_recommendation calls on one AIService
SpecService == ServiceInit /\ [][ServiceNext]_vars

----------------------------------------------------------------------------
(* Properties of find_feasible_order_quantities and optimize_reorder *)

\* q meets every order constraint of the call c
MeetsConstraints(q, c) ==
    /\ c.min_order_quantity <= q
    /\ q <= c.max_order_quantity
    /\ q % c.order_multiple = 0
    /\ c.available_cash # None => q * c.unit_cost <= c.available_cash[1]

\* no order quantity meets the constraints of the call c
NoFeasibleQuantity(c) ==
    ~ \E q \in c.min_order_quantity .. c.max_order_quantity : MeetsConstraints(q, c)

\* optimize_reorder has returned to run_pipeline
OptimizeReturned == optimization_result # None

\* an evaluation's total_expected_loss before any penalty
Unpenalized(e) == e.overstock_cost + e.understock_cost

SeqMin(S) == CHOOSE x \in S : \A y \in S : x <= y

\* C4: every quantity find_feasible_order_quantities returns lies in
\* [min_order_quantity, max_order_quantity], is a multiple of order_multiple and,
\* when a cash cap is supplied, costs no more than the cap.
C4_FeasibleQuantities ==
    pc = "feas_done" =>
        \A i \in 1 .. Len(feasible_quantities) :
            MeetsConstraints(feasible_quantities[i], cfg)

C4_Witness ==
    /\ pc = "feas_done"
    /\ Len(feasible_quantities) >= 2
    /\ cfg.order_multiple = 2
    /\ cfg.step_size = 1
    /\ cfg.available_cash # None
    /\ cfg.available_cash[1] < cfg.max_order_quantity * cfg.unit_cost

\* C2: when no order quantity meets the constraints, optimize_reorder returns the
\* sentinel (optimal_quantity 0, optimal_loss infinity, no evaluations) without
\* raising and without running a simulation.
C2_SentinelWhenInfeasible ==
    (pc \in {"opt_done", "opt_raised"} /\ NoFeasibleQuantity(cfg))
        => /\ pc = "opt_done"
           /\ optimization_result = Some(SentinelResult)
           /\ optimization_result[1].optimal_quantity = 0
           /\ optimization_result[1].optimal_loss = Inf
           /\ optSims = 0

C2_Witness ==
    /\ pc = "opt_done"
    /\ cfg.lead_time_days > Len(cfg.forecast_df)
    /\ cfg.available_cash # None
    /\ cfg.available_cash[1] < cfg.min_order_quantity * cfg.unit_cost
    /\ cfg.min_order_quantity <= cfg.max_order_quantity
    /\ optimization_result = Some(SentinelResult)

\* C3 (as claimed): when the optimizer returned the sentinel, run_pipeline ends by
\* returning a result whose recommended quantity is 0, it does not raise.
C3_SentinelIsReturned ==
    (optimization_result = Some(SentinelResult) /\ pc \in {"returned", "raised"})
        => /\ pc = "returned"
           /\ pipeline_result.optimization_result.optimal_quantity = 0

\* C5 (as claimed): a candidate above the risk ceiling is ranked by 10 times its
\* unpenalized total expected loss, any other by the unpenalized loss itself.
C5_TenTimesLoss ==
    OptimizeReturned =>
        \A i \in 1 .. Len(optimization_result[1].all_evaluations) :
            LET e == optimization_result[1].all_evaluations[i]
            IN  e.total_loss = IF ExceedsCeiling(e.stockout_probability)
                               THEN 10 * Unpenalized(e)
                               ELSE Unpenalized(e)

\* C5 (amended): a candidate above the risk ceiling is ranked by 11 times its
\* unpenalized total expected loss (the loss plus a penalty of 10 times the loss),
\* any other by the unpenalized loss itself; optimal_loss is that value for the
\* candidate returned.
C5_ElevenTimesLoss ==
    OptimizeReturned =>
        LET r == optimization_result[1]
        IN  /\ \A i \in 1 .. Len(r.all_evaluations) :
                   LET e == r.all_evaluations[i]
                   IN  e.total_loss = IF ExceedsCeiling(e.stockout_probability)
                                      THEN 11 * Unpenalized(e)
                                      ELSE Unpenalized(e)
            /\ r.all_evaluations # <<>> =>
                   \E i \in 1 .. Len(r.all_evaluations) :
                       /\ r.all_evaluations[i].quantity = r.optimal_quantity
                       /\ r.all_evaluations[i].total_loss = r.optimal_loss

C5_Witness ==
    /\ OptimizeReturned
    /\ LET evs == optimization_result[1].all_evaluations
       IN  \E i, j \in 1 .. Len(evs) :
               /\ ExceedsCeiling(evs[i].stockout_probability)
               /\ Unpenalized(evs[i]) > 0
               /\ ~ ExceedsCeiling(evs[j].stockout_probability)
               /\ Unpenalized(evs[j]) > 0

\* C6: optimize_reorder evaluates every feasible quantity and returns the one of
\* least penalized loss, the smallest such quantity when several share that loss.
C6_MinimumLossSmallestQuantity ==
    (OptimizeReturned /\ feasible_quantities # <<>>) =>
        LET r      == optimization_result[1]
            evs    == r.all_evaluations
            losses == {evs[i].total_loss : i \in 1 .. Len(evs)}
        IN  /\ {evs[i].quantity : i \in 1 .. Len(evs)}
                   = {feasible_quantities[i] : i \in 1 .. Len(feasible_quantities)}
            /\ Len(evs) = Len(feasible_quantities)
            /\ r.optimal_loss = SeqMin(losses)
            /\ r.optimal_quantity =
                   SeqMin({evs[i].quantity : i \in {j \in 1 .. Len(evs) :
                                                     evs[j].total_loss = SeqMin(losses)}})

C6_Witness ==
    /\ OptimizeReturned
    /\ LET evs == optimization_result[1].all_evaluations
       IN  /\ Len(evs) >= 3
           /\ evs[1].total_loss = evs[2].total_loss
           /\ evs[2].total_loss < evs[3].total_loss
           /\ evs[3].quantity < evs[2].quantity

\* C7: when every feasible candidate is above the risk ceiling, optimize_reorder
\* still returns a feasible candidate, the one of least penalized loss, and the
\* stockout probability it reports with it is above the ceiling.
C7_SoftCeiling ==
    (/\ OptimizeReturned
     /\ feasible_quantities # <<>>
     /\ \A i \in 1 .. Len(optimization_result[1].all_evaluations) :
            ExceedsCeiling(optimization_result[1].all_evaluations[i].stockout_probability))
        => LET r   == optimization_result[1]
               evs == r.all_evaluations
           IN  /\ r # SentinelResult
               /\ \E i \in 1 .. Len(feasible_quantities) :
                      feasible_quantities[i] = r.optimal_quantity
               /\ \A i \in 1 .. Len(evs) : r.optimal_loss <= evs[i].total_loss
               /\ r.risk_metrics # None
               /\ ExceedsCeiling(r.risk_metrics[1].stockout_probability)

C7_Witness ==
    /\ OptimizeReturned
    /\ Len(optimization_result[1].all_evaluations) >= 2
    /\ \A i \in 1 .. Len(optimization_result[1].all_evaluations) :
           ExceedsCeiling(optimization_result[1].all_evaluations[i].stockout_probability)
    /\ optimization_result[1].optimal_loss > 0
    /\ optimization_result[1].optimal_quantity > 0

----------------------------------------------------------------------------
(* Properties of allocate_capital *)

\* the rankings row of the item sku_id
RowOf(sku_id) ==
    rankings[CHOOSE i \in 1 .. Len(rankings) : rankings[i].sku_id = sku_id]

\* a row's efficiency ratio from its loss avoided and incremental cash: 0 when
\* the incremental cash is not positive
EfficiencyRatio(row) ==
    IF row.incremental_cash > 0
    THEN [num |-> row.loss_avoided, den |-> row.incremental_cash]
    ELSE [num |-> 0, den |-> 1]

\* the ratio of the row is the number k (losses are sums over NSim trials, in
\* hundredths)
RatioIs(row, k) ==
    /\ row.incremental_cash > 0
    /\ row.loss_avoided = k * 100 * NSim * row.incremental_cash

RECURSIVE AllocatedCash(_)
\* the sum of allocations[sku].cash over the items among 1 .. n
AllocatedCash(n) ==
    IF n = 0 THEN 0
    ELSE AllocatedCash(n - 1)
         + (IF n \in DOMAIN allocations THEN allocations[n].cash ELSE 0)

\* computing the metrics of item i fails: its lead time exceeds its forecast, or
\* its optimizer has no feasible quantity and returns the sentinel
ItemFails(i) ==
    \/ sku_data[i].lead_time_days > Len(sku_data[i].forecast_df)
    \/ sku_data[i].max_order_quantity < sku_data[i].min_order_quantity

\* C1 (as claimed): after allocate_capital the cash allocated to the items sums
\* to no more than total_available_cash.
C1_AllocatedCashWithinBudget ==
    apc = "returned" => AllocatedCash(Len(sku_data)) <= total_available_cash

\* the two-item case of C8: ratios 5.0 and 1.0, a budget that covers the first
\* item's incremental cash and not the second's on top of it
TwoItemScenario ==
    /\ apc = "returned"
    /\ Len(rankings) = 2
    /\ RatioIs(rankings[1], 5)
    /\ RatioIs(rankings[2], 1)
    /\ rankings[1].incremental_cash <= total_available_cash
    /\ rankings[1].incremental_cash + rankings[2].incremental_cash
           > total_available_cash

\* C8: each pass over a ranked row funds it at its optimal quantity when the
\* cumulative spend plus its incremental cash fits the budget, else at its
\* baseline quantity when the spend plus its baseline cash fits, else at quantity
\* 0 and cash 0, the spend growing by what was just checked; and with two items
\* of ratios 5.0 and 1.0 and a budget covering only the first, the first gets its
\* optimal quantity and the second zero or its baseline.
C8_GreedyFundingRule ==
    /\ [][(apc = "allocate" /\ rowIdx' = rowIdx + 1) =>
            LET row    == rankings[rowIdx]
                funded == allocations'[row.sku_id]
            IN  IF total_cash_used + row.incremental_cash <= total_available_cash
                THEN /\ funded.quantity = row.optimal_quantity
                     /\ total_cash_used' = total_cash_used + row.incremental_cash
                ELSE IF total_cash_used + row.baseline_cash <= total_available_cash
                THEN /\ funded.quantity = row.baseline_quantity
                     /\ funded.cash = row.baseline_cash
                     /\ total_cash_used' = total_cash_used + row.baseline_cash
                ELSE /\ funded.quantity = 0
                     /\ funded.cash = 0
                     /\ total_cash_used' = total_cash_used]_vars
    /\ [](TwoItemScenario =>
            /\ allocations[rankings[1].sku_id].quantity = rankings[1].optimal_quantity
            /\ allocations[rankings[2].sku_id].quantity
                   \in {0, rankings[2].baseline_quantity})

C8_Witness ==
    /\ TwoItemScenario
    /\ rankings[1].sku_id = 2
    /\ total_cash_used = rankings[1].incremental_cash
    /\ allocations[2].quantity > 0
    /\ allocations[1].quantity = 0

\* C9: the items of allocation_order stand in non-increasing order of their
\* efficiency ratio, the ratio being 0 for an item whose incremental cash is not
\* positive.
C9_FundedInEfficiencyOrder ==
    apc \in {"allocate", "returned"} =>
        \A i, j \in 1 .. Len(allocation_order) :
            i < j => RatioGeq(EfficiencyRatio(RowOf(allocation_order[i])),
                              EfficiencyRatio(RowOf(allocation_order[j])))

C9_Witness ==
    /\ apc = "returned"
    /\ allocation_order = <<2, 1>>
    /\ RowOf(1).incremental_cash <= 0
    /\ RowOf(1).loss_avoided # 0
    /\ ~ RatioGeq(EfficiencyRatio(RowOf(1)), EfficiencyRatio(RowOf(2)))

\* C10 (as claimed): when the metrics of one item cannot be computed,
\* allocate_capital still returns, and every other item has its allocation.
C10_FailureIsolated ==
    (apc \in {"returned", "raised"} /\ \E i \in 1 .. Len(sku_data) : ItemFails(i))
        => /\ apc = "returned"
           /\ \A j \in 1 .. Len(sku_data) : ~ ItemFails(j) => j \in DOMAIN allocations

----------------------------------------------------------------------------
(* Properties of the services' batch calls *)

\* the product, handled alone by the running batch's handler, gets its record
SucceedsAlone(i) ==
    IF batchArgs.handler = "recommendations"
    THEN /\ products[i].has_inventory
         /\ ~ GenerateRecommendation(products[i], None).raised
    ELSE ~ GenerateReorderDecision(products[i], batchArgs.cash,
                                   batchArgs.baseline_quantities[i], 0).raised

\* the returned list has a record of the product
HasRecord(i) ==
    \E k \in 1 .. Len(recommendations) : recommendations[k].product_id = i

----------------------------------------------------------------------------
(* Properties of the simulator *)

\* the calls of simulate_inventory_depletion made so far, as indexes of simCalls
SimulateCalls == { i \in 1 .. Len(simCalls) : simCalls[i].op = "simulate_inventory_depletion" }

\* C12: one simulator instance called twice with identical inputs returns
\* identical results (ending inventories, stockout days, stockout probability)
C12_RepeatedCallsAgree ==
    \A i, j \in SimulateCalls : simCalls[i].result = simCalls[j].result

----------------------------------------------------------------------------
(* Properties of the recommendations *)

\* C13: every recommendation produced with a recommended quantity >= 0 has
\* stockout_probability_after <= stockout_probability_before
C13_AfterNotAboveBefore ==
    \A k \in 1 .. Len(recommendations) :
        recommendations[k].recommended_quantity >= 0 =>
            recommendations[k].stockout_probability_after
                <= recommendations[k].stockout_probability_before

----------------------------------------------------------------------------
(* Properties of the size curves *)

\* C14: the per-size quantities of every generated curve sum exactly to the
\* total the curve was generated for
C14_CurveSumsToTotal ==
    \A k \in 1 .. Len(valid_curves) :
        SumSeq(valid_curves[k].curve) = valid_curves[k].total_units

\* C15: with order_multiple > 1 every per-size quantity of every generated
\* curve, the largest-share size included, is a non-negative multiple of
\* order_multiple
C15_QuantitiesAreMultiples ==
    curveInput # None /\ curveInput[1].order_multiple > 1 =>
        \A k \in 1 .. Len(valid_curves) :
            \A i \in 1 .. Len(valid_curves[k].curve) :
                /\ valid_curves[k].curve[i] >= 0
                /\ valid_curves[k].curve[i] % curveInput[1].order_multiple = 0

----------------------------------------------------------------------------
(* Properties of the forecaster *)

\* the last call was op
LastCall(op) == fcResult # None /\ fcResult[1].op = op

\* C16: every row forecast() returns has 0 <= p10 <= p50 <= p90
C16_QuantilesOrdered ==
    LastCall("forecast") /\ ~ fcResult[1].raised =>
        \A d \in 1 .. Len(fcResult[1].rows) :
            /\ 0 <= fcResult[1].rows[d].p10
            /\ fcResult[1].rows[d].p10 <= fcResult[1].rows[d].p50
            /\ fcResult[1].rows[d].p50 <= fcResult[1].rows[d].p90

\* C17: train() succeeds on a history of at least 30 observations, and on a
\* shorter one it fails and leaves the forecaster untrained
C17_ThirtyObservationsSuffice ==
    LastCall("train") =>
        IF fcResult[1].history_days >= MinSalesDays
        THEN ~ fcResult[1].raised
        ELSE fcResult[1].raised /\ models = {}

----------------------------------------------------------------------------
(* Properties of the lead time check *)

\* the calls are made with a lead time beyond the forecast
LeadTimeBeyondForecast ==
    /\ simInput # None
    /\ simInput[1].lead_time_days > Len(simInput[1].forecast_df)

\* the call returned the sentinel of optimize_reorder, having found no
\* feasible quantity
ReturnedSentinel(call) ==
    /\ call.op = "optimize_reorder"
    /\ ~ call.result.raised
    /\ call.result.feasible = <<>>
    /\ call.result.result = SentinelResult

\* C19 as stated: with a lead time beyond the forecast, every call of
\* simulate_inventory_depletion, of the risk estimation, of the expected-loss
\* computation and of optimize_reorder raises and returns no result
C19_EveryCallRaises ==
    LeadTimeBeyondForecast =>
        \A i \in 1 .. Len(simCalls) : simCalls[i].result.raised

\* C19, amended: with a lead time beyond the forecast every such call raises
\* and draws no demand, except that optimize_reorder returns its sentinel,
\* without simulating, when no order quantity is feasible
C19_RaisesUnlessNothingFeasible ==
    LeadTimeBeyondForecast =>
        /\ rngPos = 0
        /\ \A i \in 1 .. Len(simCalls) :
               \/ simCalls[i].result.raised
               \/ ReturnedSentinel(simCalls[i])
        /\ \A i \in 1 .. Len(simCalls) :
               simCalls[i].op = "optimize_reorder" =>
                   (simCalls[i].result.raised <=> simCalls[i].result.feasible # <<>>)

C19_Witness ==
    /\ LeadTimeBeyondForecast
    /\ Len(simCalls) = 2
    /\ simCalls[1].op = "simulate_inventory_depletion"
    /\ simCalls[1].result.raised
    /\ simCalls[2].op = "optimize_reorder"
    /\ simCalls[2].result.raised

----------------------------------------------------------------------------
(* Properties of the risk categories *)

\* category is the one the thresholds 0.05 and 0.20 give the probability
\* count / trials
AgreesWithThresholds(category, count, trials) ==
    /\ category \in {"LOW", "MEDIUM", "HIGH"}
    /\ category = "LOW" <=> count * 100 < 5 * trials
    /\ category = "MEDIUM" <=> (5 * trials <= count * 100 /\ count * 100 < 20 * trials)
    /\ category = "HIGH" <=> count * 100 >= 20 * trials

----------------------------------------------------------------------------
(* Properties of the cost model *)

\* C21: compute_understock_cost returns 0 for unmet_demand 0 and never
\* decreases when unmet_demand grows, for every cost model and either value
\* of stockout_occurred
C21_UnderstockCostMonotone ==
    costOut # <<>> =>
        /\ costOut[1] = 0
        /\ \A k \in 1 .. Len(costOut) - 1 : costOut[k] <= costOut[k + 1]

(* Properties of SizeShareForecaster.forecast *)

\* the shares of day i over all sizes sum to 1
SharesSumToOne(out, i) ==
    SumSeq(AsList([z \in DOMAIN out.size_shares |-> out.size_shares[z][i].num]))
        = out.size_shares[1][i].den

\* C22: forecast returns, and on every forecast day its shares over all the
\* configured sizes sum to 1, also when a size has no trained share model and
\* when the trained models' predictions do not sum to 1
C22_SharesSumToOne ==
    shareOut # None =>
        /\ ~ shareOut[1].raised
        /\ \A i \in 1 .. ShareHorizon : SharesSumToOne(shareOut[1], i)

(* Independence of the grid candidates of optimize_reorder *)

\* the evaluation of quantity qty when it is the first candidate of the call
EvaluatedFirst(qty) == EvaluateCandidate(cfg, cfg, qty, 0)

\* C23: every candidate's evaluation in optimize_reorder (its losses and its
\* stockout probability) is the one it gets when evaluated alone: it does not
\* depend on the candidates evaluated before it
C23_CandidatesIndependent ==
    optimization_result # None =>
        \A k \in 1 .. Len(optimization_result[1].all_evaluations) :
            optimization_result[1].all_evaluations[k]
                = EvaluatedFirst(optimization_result[1].all_evaluations[k].quantity)

(* Properties of the depletion walk of simulate_inventory_depletion *)

\* the demand path of trial sim of a simulation started at stream position pos
TrialPath(sim, pos) ==
    SimulateDemandPath(simInput[1].forecast_df, simInput[1].lead_time_days,
                       pos + (sim - 1) * simInput[1].lead_time_days)

\* the days on which the running inventory of a trial is negative
NegativeDays(daily_demand) ==
    {d \in 1 .. Len(daily_demand) :
        simInput[1].current_inventory - SumSeq(SubSeq(daily_demand, 1, d)) < 0}

\* the first of them, undefined when there is none
FirstNegativeDay(daily_demand) ==
    IF NegativeDays(daily_demand) = {} THEN NaN
    ELSE CHOOSE d \in NegativeDays(daily_demand) :
             \A e \in NegativeDays(daily_demand) : d <= e

\* the batch agrees with the trials' demand paths: each stockout day is the
\* first negative day, and the probability counts the recorded days
WalkAgrees(batch, pos) ==
    /\ \A sim \in 1 .. NSim :
           batch.stockout_days[sim] = FirstNegativeDay(TrialPath(sim, pos))
    /\ batch.stockout_probability
           = Cardinality({sim \in 1 .. NSim : batch.stockout_days[sim] # NaN})

\* C24: in every call of simulate_inventory_depletion each trial's stockout day
\* is the first (1-indexed) day its running inventory is negative, undefined
\* iff there is no such day, and stockout_probability is the number of trials
\* with a stockout day (out of NSim)
C24_FirstNegativeDayRecorded ==
    [][ ( /\ Len(simCalls') = Len(simCalls) + 1
          /\ simCalls'[Len(simCalls')].op = "simulate_inventory_depletion"
          /\ ~ simCalls'[Len(simCalls')].result.raised )
        => WalkAgrees(simCalls'[Len(simCalls')].result, rngPos) ]_vars

\* a call recorded a stockout on the first of two days for one trial and none
\* for another
C24_Witness ==
    \E i \in SimulateCalls :
        /\ ~ simCalls[i].result.raised
        /\ simInput[1].lead_time_days > 1
        /\ \E sim \in 1 .. NSim : simCalls[i].result.stockout_days[sim] = 1
        /\ \E sim \in 1 .. NSim : simCalls[i].result.stockout_days[sim] = NaN

(* Properties of compute_expected_economic_loss *)

\* the SimulationBatch a call started at stream position pos runs
SimulationRun(pos) ==
    SimulateInventoryDepletion(simInput[1].forecast_df,
        simInput[1].current_inventory, simInput[1].lead_time_days, pos)

\* C25: the stockout_probability in the result of compute_expected_economic_loss
\* is the stockout_probability of the simulation the call ran
C25_StockoutProbabilityForwarded ==
    [][ ( /\ Len(simCalls') = Len(simCalls) + 1
          /\ simCalls'[Len(simCalls')].op = "compute_expected_economic_loss"
          /\ ~ simCalls'[Len(simCalls')].result.raised )
        => simCalls'[Len(simCalls')].result.stockout_probability
               = SimulationRun(rngPos).stockout_probability ]_vars

(* Properties of optimize_style_reorder *)

\* the evaluations of the templates whose total_cash is within the cap
CurvesThatFit(a) ==
    { EvaluateSizeCurve(a, a.size_curve_templates[k]) :
          k \in { j \in 1 .. Len(a.size_curve_templates) :
                      EvaluateSizeCurve(a, a.size_curve_templates[j]).total_cash
                          <= a.available_cash[1] } }

\* C26: with a cash cap supplied (0 included) the curve optimize_style_reorder
\* returns has total_cash within the cap and the highest return per rupee of
\* the curves that fit, and nothing is returned when no curve fits
C26_CashCapRespected ==
    (styleOut # None /\ styleInput[1].available_cash # None) =>
        IF CurvesThatFit(styleInput[1]) = {}
        THEN styleOut[1].returned = None
        ELSE /\ styleOut[1].returned # None
             /\ styleOut[1].returned[1] \in CurvesThatFit(styleInput[1])
             /\ \A c \in CurvesThatFit(styleInput[1]) :
                    ~ ReturnBelow(styleOut[1].returned[1], c)

(* Properties of accepting and rejecting a decision *)

\* the committed state before call k
StatusBefore(k) == IF k = 1 THEN "pending" ELSE decCalls[k - 1].status
QuantityBefore(k) == IF k = 1 THEN decInput[1].initial_quantity ELSE decCalls[k - 1].quantity

\* the stock with recommended_quantity added n times
StockPlus(n) ==
    IF decInput[1].initial_quantity = None THEN None
    ELSE Some(decInput[1].initial_quantity[1] + n * decInput[1].recommended_quantity)

\* C27: over the calls made one after another, the status only moves from
\* pending to accepted or rejected, every call after the first successful one
\* fails and changes neither status nor stock, and the stock is the initial one
\* plus recommended_quantity once if an accept succeeded, unchanged otherwise
C27_DecidedOnce ==
    /\ \A k \in 1 .. Len(decCalls) :
           /\ decCalls[k].status # StatusBefore(k) =>
                  /\ StatusBefore(k) = "pending"
                  /\ decCalls[k].status \in {"accepted", "rejected"}
           /\ (\E j \in 1 .. k - 1 : decCalls[j].ok) =>
                  /\ ~ decCalls[k].ok
                  /\ decCalls[k].status = StatusBefore(k)
                  /\ decCalls[k].quantity = QuantityBefore(k)
           /\ decCalls[k].op = "reject" => decCalls[k].quantity = QuantityBefore(k)
    /\ decCalls # <<>> =>
           inventory_quantity =
               IF \E k \in 1 .. Len(decCalls) : decCalls[k].ok /\ decCalls[k].op = "accept"
               THEN StockPlus(1) ELSE StockPlus(0)

\* a successful accept was followed by an accept and a reject, on a product
\* with stock
C27_Witness ==
    /\ Len(decCalls) = 3
    /\ decCalls[1].op = "accept" /\ decCalls[1].ok
    /\ decCalls[2].op = "accept"
    /\ decCalls[3].op = "reject"
    /\ inventory_quantity # None

\* C28: when the concurrent requests have all read the pending status and
\* committed, the stock has grown by recommended_quantity at most once and
\* matches the final status: grown once if accepted, unchanged if rejected
C28_ConcurrentDecidedOnce ==
    (decReqs # <<>> /\ \A i \in 1 .. Len(decReqs) : decReqs[i].pc = "done") =>
        /\ decision_status \in {"accepted", "rejected"}
        /\ decision_status = "accepted" => inventory_quantity = StockPlus(1)
        /\ decision_status = "rejected" => inventory_quantity = StockPlus(0)

(* Brand-level cash cap of generate_recommendations_for_brand *)

\* the cash locked by all the recommendations returned
TotalCashLocked ==
    SumSeq(AsList([k \in 1 .. Len(recommendations) |-> recommendations[k].cash_locked]))

\* C29: when generate_recommendations_for_brand is given total_available_cash,
\* the cash_locked of the recommendations it returns sums to no more than it
C29_BrandCashCap ==
    ( /\ bpc = "returned"
      /\ batchArgs.handler = "recommendations"
      /\ batchArgs.cash # None )
    => TotalCashLocked <= batchArgs.cash[1]

(* Freshness of the cached pipelines of AIService *)

\* the outcome of the call when a pipeline made from the product passed to it
\* is trained on the history passed to it, from the same stream position
FreshOutcome(cache, product, history, pos) ==
    Outcome(RecommendWith(NewPipeline(product), product, history,
                          IF cache = None THEN 0 ELSE pos).outcome)

\* C30: every generate_recommendation call returns what the sales history and
\* the cost parameters passed to it give, whatever the cached pipeline was
\* created with and trained on
C30_RecommendationFromCurrentData ==
    [][ aiEvents' = aiEvents + 1 /\ aiProduct' = aiProduct /\ aiHistory' = aiHistory
        => aiRec' = Some(FreshOutcome(pipelines, aiProduct[1], aiHistory[1], rngPos)) ]_vars

============================================================================
